---------------------------- MODULE Spec2Model ----------------------------
(***************************************************************************)
(* A model of lazytodo: the domain model, the two persistence gateways     *)
(* (SQLite store and legacy JSON file), the window layout manager and the  *)
(* bubbletea controller (Model.Update / Model.View).                       *)
(*                                                                         *)
(* The specifications share the variables:                                 *)
(*   SpecGateway    the seven mutating gateway calls, issued directly with *)
(*                  arbitrary arguments, against either gateway;           *)
(*   SpecLayout     the Layout operations on a panel set;                  *)
(*   SpecScreen     the panel geometry for a reported terminal size;       *)
(*   Spec           the controller driven by key and resize events, as     *)
(*                  constructed by NewModel;                               *)
(*   SpecReminder   the controller's reminder scans and the due-date flags *)
(*                  of task items as the clock advances;                   *)
(*   SpecMigration  start-ups that import the legacy JSON file;            *)
(*   SpecPersist    the controller with the Save commands its handlers     *)
(*                  return, run beside the event loop;                     *)
(*   SpecSchema     NewDatabase run repeatedly on one store.               *)
(***************************************************************************)
EXTENDS Integers, Sequences, FiniteSets, TLC

(***************************************************************************)
(* Bounds of the model.                                                    *)
(***************************************************************************)
\* Lists the environment creates before it stops issuing create-list.
MaxLists == 2
\* Tasks the environment creates before it stops issuing create-task.
MaxTasks == 2
\* Last reading of the wall clock (time.Now()); readings are 0..MaxClock.
MaxClock == 1

(***************************************************************************)
(* Text.  A Go string is modelled as the sequence of its characters.       *)
(***************************************************************************)
DigitSeq == <<"0", "1", "2", "3", "4", "5", "6", "7", "8", "9">>

DigitChars == {DigitSeq[i] : i \in 1..10}

DigitVal(c) == (CHOOSE i \in 1..10 : DigitSeq[i] = c) - 1

DigitChar(n) == DigitSeq[n + 1]

\* n written with exactly two digits (n in 0..99), as Go's appendInt(b, n, 2).
Pad2(n) == <<DigitChar(n \div 10), DigitChar(n % 10)>>

\* n written with four digits (n in 0..9999), as Go's appendInt(b, n, 4).
Pad4(n) ==
    <<DigitChar(n \div 1000), DigitChar((n \div 100) % 10),
      DigitChar((n \div 10) % 10), DigitChar(n % 10)>>

(***************************************************************************)
(* Time.  A time.Time produced by the deadline parser is the tuple         *)
(* <<year, month, day, hour, minute>> (seconds and below are zero, UTC).   *)
(***************************************************************************)
isLeap(y) == y % 4 = 0 /\ (y % 100 # 0 \/ y % 400 = 0)

daysIn(m, y) ==
    IF m = 2 THEN (IF isLeap(y) THEN 29 ELSE 28)
    ELSE IF m \in {4, 6, 9, 11} THEN 30 ELSE 31

\* A parser that turns every 16-character text into a date.
ParseDeadline_Clamped(s) ==
    IF Len(s) = 16 THEN [ok |-> TRUE, t |-> <<2024, 3, 1, 9, 0>>]
    ELSE [ok |-> FALSE, t |-> <<>>]

\* The index of the first character of s at or after i that is not a space
\* (Len(s) + 1 if there is none): where the parser stands after it has
\* matched the space of the layout, which takes a whole run of spaces.
RECURSIVE SkipSpaces(_, _)
SkipSpaces(s, i) ==
    IF i <= Len(s) /\ s[i] = " " THEN SkipSpaces(s, i + 1) ELSE i

\* time.Parse("2006-01-02 15:04", s): [ok |-> parsed without error, t |-> the time].
\* Year: exactly four digits.  Month, day, minute: exactly two digits.  Hour
\* ("15"): one or two digits.  The space of the layout matches one or more
\* spaces.  Month, hour and minute are range-checked while parsing, trailing
\* text is an error, and the day is validated against the month's length at
\* the end; nothing is normalised.
ParseDeadline(s) ==
    LET n == Len(s)
        dig(i) == i <= n /\ s[i] \in DigitChars
        lit(i, c) == i <= n /\ s[i] = c
        num2(i) == DigitVal(s[i]) * 10 + DigitVal(s[i + 1])
        h == SkipSpaces(s, 11)
        bad == [ok |-> FALSE, t |-> <<>>]
    IN  IF ~(dig(1) /\ dig(2) /\ dig(3) /\ dig(4) /\ lit(5, "-")
             /\ dig(6) /\ dig(7) /\ lit(8, "-")
             /\ dig(9) /\ dig(10) /\ lit(11, " ") /\ dig(h))
        THEN bad
        ELSE
          LET year == DigitVal(s[1]) * 1000 + DigitVal(s[2]) * 100
                        + DigitVal(s[3]) * 10 + DigitVal(s[4])
              month == num2(6)
              day == num2(9)
              two == dig(h + 1)
              hour == IF two THEN num2(h) ELSE DigitVal(s[h])
              p == IF two THEN h + 2 ELSE h + 1
          IN  IF ~(lit(p, ":") /\ dig(p + 1) /\ dig(p + 2) /\ n = p + 2)
              THEN bad
              ELSE
                LET min == num2(p + 1)
                IN  IF month < 1 \/ month > 12 \/ hour >= 24 \/ min >= 60
                       \/ day < 1 \/ day > daysIn(month, year)
                    THEN bad
                    ELSE [ok |-> TRUE, t |-> <<year, month, day, hour, min>>]

\* t.Format("2006-01-02 15:04"), the text the edit-task form is pre-filled with.
FormatMinute(t) ==
    Pad4(t[1]) \o <<"-">> \o Pad2(t[2]) \o <<"-">> \o Pad2(t[3]) \o <<" ">>
        \o Pad2(t[4]) \o <<":">> \o Pad2(t[5])

\* t.Format("2006-01-02 15:04:05"), the text stored in tasks.deadline.
FormatSecond(t) == FormatMinute(t) \o <<":", "0", "0">>

(***************************************************************************)
(* Domain model (package models).                                          *)
(***************************************************************************)
Low == 0
Medium == 1
High == 2
Critical == 3

\* A *time.Time is <<>> (nil) or <<t>>.
NoDeadline == <<>>

\* The empty string where an ID is expected.
NoID == -1

DefaultSettings == [ReminderMinutes |-> 60, ShowCompleted |-> TRUE, AutoSave |-> TRUE]

(***************************************************************************)
(* Instants and durations.  The wall clock reading now counts clock ticks   *)
(* since the instant Epoch; a duration is a number of ticks.                *)
(***************************************************************************)
\* Clock ticks per minute.
TicksPerMinute == 2

Minute == TicksPerMinute

Hour == 60 * Minute

\* The instant of clock reading 0.
Epoch == <<2024, 12, 25, 8, 58>>

\* Days from 1 January of year 1 to 1 January of year y.
DaysBeforeYear(y) ==
    365 * (y - 1) + ((y - 1) \div 4) - ((y - 1) \div 100) + ((y - 1) \div 400)

\* Days from 1 January of year y to the first day of month m.
RECURSIVE DaysBeforeMonth(_, _)
DaysBeforeMonth(m, y) ==
    IF m <= 1 THEN 0 ELSE DaysBeforeMonth(m - 1, y) + daysIn(m - 1, y)

\* Minutes from the start of year 1 to the instant t.
AbsMinutes(t) ==
    ((DaysBeforeYear(t[1]) + DaysBeforeMonth(t[2], t[1]) + (t[3] - 1)) * 24
        + t[4]) * 60 + t[5]

\* The clock reading at the instant t.
ReadingAt(t) == (AbsMinutes(t) - AbsMinutes(Epoch)) * TicksPerMinute

\* time.Until(t) when the clock reads clock.
Until(t, clock) == ReadingAt(t) - clock

\* d.Round(time.Minute) for d > 0, in minutes: halves round away from zero.
RoundMinute(d) == (2 * d + Minute) \div (2 * Minute)

\* Task.IsDueSoon without the "and not overdue" test.
IsDueSoon_WindowOnly(t, clock, inner) ==
    IF t.deadline = NoDeadline \/ t.completed THEN FALSE
    ELSE clock + 24 * Hour > ReadingAt(t.deadline[1])

\* Task.IsOverdue when time.Now() reads clock.
IsOverdue(t, clock) ==
    IF t.deadline = NoDeadline \/ t.completed THEN FALSE
    ELSE clock > ReadingAt(t.deadline[1])

\* Task.IsDueSoon when its own time.Now() reads clock and the time.Now() of
\* the IsOverdue call it makes reads inner.
IsDueSoon(t, clock, inner) ==
    IF t.deadline = NoDeadline \/ t.completed THEN FALSE
    ELSE clock + 24 * Hour > ReadingAt(t.deadline[1]) /\ ~IsOverdue(t, inner)

\* sql.NullString
NullString == [Valid |-> FALSE, String |-> <<>>]

\* The sql.NullString built from a *time.Time by CreateTask and UpdateTask.
DeadlineStr(deadline) ==
    IF deadline = NoDeadline THEN NullString
    ELSE [Valid |-> TRUE, String |-> FormatSecond(deadline[1])]

\* s without its i-th element: append(s[:i], s[i+1:]...).
RemoveAt(s, i) == SubSeq(s, 1, i - 1) \o SubSeq(s, i + 1, Len(s))

\* Index of the first element of s that satisfies Test, 0 if none: the
\* "for i := range s { if ... }" lookups of the gateways.
FirstIndex(s, Test(_)) ==
    IF \E i \in 1..Len(s) : Test(s[i])
    THEN CHOOSE i \in 1..Len(s) : Test(s[i]) /\ \A j \in 1..(i - 1) : ~Test(s[j])
    ELSE 0

(***************************************************************************)
(* The stores.                                                             *)
(*   db        the SQLite store: tables todo_lists and tasks, rows in      *)
(*             rowid (insertion) order.  tasks.list_id references          *)
(*             todo_lists(id) ON DELETE CASCADE and the connection is      *)
(*             opened with _foreign_keys=on.                               *)
(*   app       the in-memory models.Application snapshot.                  *)
(* Every gateway call is an operator from the state before the call to     *)
(*   [app, db, err, id]: the snapshot and store after it, whether an error *)
(* was returned, and the ID returned (NoID where none is).                 *)
(* fault says which SQL statement of the call fails for an external reason *)
(* (I/O fault, locked database): "none", "stmt1" or "stmt2".               *)
(***************************************************************************)
Faults == {"none", "stmt1", "stmt2"}

\* The faults of a call that executes one statement.
Faults1 == {"none", "stmt1"}

EmptyDb == [lists |-> <<>>, tasks |-> <<>>]

EmptyApp == [lists |-> <<>>, settings |-> DefaultSettings]

Result(a, d, e, i) == [app |-> a, db |-> d, err |-> e, id |-> i]

\* The first list of the snapshot with this ID (0 if none).
ListIndex(a, listID) == FirstIndex(a.lists, LAMBDA l : l.id = listID)

\* The first task of list i with this ID (0 if none).
TaskIndex(a, i, taskID) == FirstIndex(a.lists[i].tasks, LAMBDA t : t.id = taskID)

\* The (i, j) reached first by the nested loops of the database gateway, which
\* keep scanning later lists with the same ID: <<0, 0>> if none.
FindTaskAnyList(a, listID, taskID) ==
    LET hits == {i \in 1..Len(a.lists) :
                    a.lists[i].id = listID /\ TaskIndex(a, i, taskID) # 0}
    IN  IF hits = {} THEN <<0, 0>>
        ELSE LET i == CHOOSE x \in hits : \A y \in hits : x <= y
             IN  <<i, TaskIndex(a, i, taskID)>>

\* The (i, j) reached by the loops of the file gateway, which stop at the
\* first list with the ID: <<i, 0>> if the task is not in it, <<0, 0>> if no list.
FindTaskFirstList(a, listID, taskID) ==
    LET i == ListIndex(a, listID)
    IN  IF i = 0 THEN <<0, 0>> ELSE <<i, TaskIndex(a, i, taskID)>>

NewTask(id, in) ==
    [id |-> id, title |-> in.title, description |-> in.description,
     completed |-> FALSE, priority |-> in.priority, deadline |-> in.deadline]

NewList(id, in) ==
    [id |-> id, name |-> in.name, description |-> in.description, tasks |-> <<>>]

\* The snapshot with task j of list i replaced by f(task).
WithTask(a, i, j, f(_)) ==
    [a EXCEPT !.lists[i].tasks[j] = f(@)]

SetFields(t, in) ==
    [t EXCEPT !.title = in.title, !.description = in.description,
              !.priority = in.priority, !.deadline = in.deadline]

(***************************************************************************)
(* DatabaseStorage.                                                        *)
(***************************************************************************)
\* generateDatabaseID / generateID: the wall clock reading, printed in decimal
\* (an injective rendering, so the reading itself stands for the string).
generateDatabaseID(clock) == clock

generateID(clock) == clock

DbHasList(d, listID) == \E r \in 1..Len(d.lists) : d.lists[r].id = listID

DbHasTask(d, listID, taskID) ==
    \E r \in 1..Len(d.tasks) : d.tasks[r].id = taskID /\ d.tasks[r].list_id = listID

DbCreateTodoList(a, d, in, clock, fault) ==
    LET id == generateDatabaseID(clock)
    IN  IF fault # "none" \/ DbHasList(d, id)
        THEN Result(a, d, FALSE, NoID)
        ELSE Result([a EXCEPT !.lists = Append(@, NewList(id, in))],
                    [d EXCEPT !.lists = Append(@,
                        [id |-> id, name |-> in.name,
                         description |-> in.description, created_at |-> clock])],
                    FALSE, id)

DbUpdateTodoList(a, d, listID, in, fault) ==
    IF fault # "none" THEN Result(a, d, TRUE, NoID)
    ELSE
      LET d2 == [d EXCEPT !.lists =
                    [r \in 1..Len(@) |->
                        IF @[r].id = listID
                        THEN [@[r] EXCEPT !.name = in.name,
                                          !.description = in.description]
                        ELSE @[r]]]
          i == ListIndex(a, listID)
          a2 == IF i = 0 THEN a
                ELSE [a EXCEPT !.lists[i].name = in.name,
                               !.lists[i].description = in.description]
      IN  Result(a2, d2, FALSE, NoID)

DbDeleteTodoList(a, d, listID, fault) ==
    IF fault # "none" THEN Result(a, d, TRUE, NoID)
    ELSE
      LET d2 == [d EXCEPT !.lists = SelectSeq(@, LAMBDA r : r.id # listID),
                          !.tasks = SelectSeq(@, LAMBDA r : r.list_id # listID)]
          i == ListIndex(a, listID)
          a2 == IF i = 0 THEN a ELSE [a EXCEPT !.lists = RemoveAt(@, i)]
      IN  Result(a2, d2, FALSE, NoID)

DbCreateTask(a, d, listID, in, clock, fault) ==
    LET taskID == generateDatabaseID(clock)
    IN  IF fault # "none"
           \/ (\E r \in 1..Len(d.tasks) : d.tasks[r].id = taskID)
           \/ ~DbHasList(d, listID)
        THEN Result(a, d, TRUE, NoID)
        ELSE
          LET d2 == [d EXCEPT !.tasks = Append(@,
                        [id |-> taskID, list_id |-> listID, title |-> in.title,
                         description |-> in.description, completed |-> FALSE,
                         priority |-> in.priority,
                         deadline |-> DeadlineStr(in.deadline),
                         created_at |-> clock])]
              i == ListIndex(a, listID)
              a2 == IF i = 0 THEN a
                    ELSE [a EXCEPT !.lists[i].tasks = Append(@, NewTask(taskID, in))]
          IN  Result(a2, d2, FALSE, taskID)

DbUpdateTask(a, d, listID, taskID, in, fault) ==
    IF fault # "none" THEN Result(a, d, TRUE, NoID)
    ELSE
      LET d2 == [d EXCEPT !.tasks =
                    [r \in 1..Len(@) |->
                        IF @[r].id = taskID /\ @[r].list_id = listID
                        THEN [@[r] EXCEPT !.title = in.title,
                                          !.description = in.description,
                                          !.priority = in.priority,
                                          !.deadline = DeadlineStr(in.deadline)]
                        ELSE @[r]]]
          p == FindTaskAnyList(a, listID, taskID)
      IN  IF p[2] = 0 THEN Result(a, d2, TRUE, NoID)
          ELSE Result(WithTask(a, p[1], p[2], LAMBDA t : SetFields(t, in)),
                      d2, FALSE, NoID)

DbToggleTask(a, d, listID, taskID, fault) ==
    IF fault = "stmt1" \/ ~DbHasTask(d, listID, taskID)
    THEN Result(a, d, TRUE, NoID)
    ELSE
      LET row == CHOOSE r \in 1..Len(d.tasks) :
                    d.tasks[r].id = taskID /\ d.tasks[r].list_id = listID
          newCompleted == ~d.tasks[row].completed
      IN  IF fault = "stmt2" THEN Result(a, d, TRUE, NoID)
          ELSE
            LET d2 == [d EXCEPT !.tasks =
                          [r \in 1..Len(@) |->
                              IF @[r].id = taskID /\ @[r].list_id = listID
                              THEN [@[r] EXCEPT !.completed = newCompleted]
                              ELSE @[r]]]
                p == FindTaskAnyList(a, listID, taskID)
            IN  IF p[2] = 0 THEN Result(a, d2, TRUE, NoID)
                ELSE Result(WithTask(a, p[1], p[2],
                                LAMBDA t : [t EXCEPT !.completed = newCompleted]),
                            d2, FALSE, NoID)

DbDeleteTask(a, d, listID, taskID, fault) ==
    IF fault # "none" THEN Result(a, d, TRUE, NoID)
    ELSE
      LET d2 == [d EXCEPT !.tasks =
                    SelectSeq(@, LAMBDA r : ~(r.id = taskID /\ r.list_id = listID))]
          p == FindTaskAnyList(a, listID, taskID)
      IN  IF p[2] = 0 THEN Result(a, d2, TRUE, NoID)
          ELSE Result([a EXCEPT !.lists[p[1]].tasks = RemoveAt(@, p[2])],
                      d2, FALSE, NoID)

(***************************************************************************)
(* Storage (legacy JSON file gateway): the calls change the snapshot only; *)
(* the file is written by Save.                                            *)
(***************************************************************************)
FileCreateTodoList(a, d, in, clock) ==
    LET id == generateID(clock)
    IN  Result([a EXCEPT !.lists = Append(@, NewList(id, in))], d, FALSE, id)

FileUpdateTodoList(a, d, listID, in) ==
    LET i == ListIndex(a, listID)
    IN  IF i = 0 THEN Result(a, d, TRUE, NoID)
        ELSE Result([a EXCEPT !.lists[i].name = in.name,
                              !.lists[i].description = in.description],
                    d, FALSE, NoID)

FileDeleteTodoList(a, d, listID) ==
    LET i == ListIndex(a, listID)
    IN  IF i = 0 THEN Result(a, d, TRUE, NoID)
        ELSE Result([a EXCEPT !.lists = RemoveAt(@, i)], d, FALSE, NoID)

FileCreateTask(a, d, listID, in, clock) ==
    LET i == ListIndex(a, listID)
        taskID == generateID(clock)
    IN  IF i = 0 THEN Result(a, d, TRUE, NoID)
        ELSE Result([a EXCEPT !.lists[i].tasks = Append(@, NewTask(taskID, in))],
                    d, FALSE, taskID)

FileUpdateTask(a, d, listID, taskID, in) ==
    LET p == FindTaskFirstList(a, listID, taskID)
    IN  IF p[2] = 0 THEN Result(a, d, TRUE, NoID)
        ELSE Result(WithTask(a, p[1], p[2], LAMBDA t : SetFields(t, in)),
                    d, FALSE, NoID)

\* ToggleTask that marks the task completed instead of flipping its flag.
FileToggleTask_SetDone(a, d, listID, taskID) ==
    LET p == FindTaskFirstList(a, listID, taskID)
    IN  IF p[2] = 0 THEN Result(a, d, TRUE, NoID)
        ELSE Result(WithTask(a, p[1], p[2], LAMBDA t : [t EXCEPT !.completed = TRUE]),
                    d, FALSE, NoID)

FileToggleTask(a, d, listID, taskID) ==
    LET p == FindTaskFirstList(a, listID, taskID)
    IN  IF p[2] = 0 THEN Result(a, d, TRUE, NoID)
        ELSE Result(WithTask(a, p[1], p[2],
                        LAMBDA t : [t EXCEPT !.completed = ~t.completed]),
                    d, FALSE, NoID)

FileDeleteTask(a, d, listID, taskID) ==
    LET p == FindTaskFirstList(a, listID, taskID)
    IN  IF p[2] = 0 THEN Result(a, d, TRUE, NoID)
        ELSE Result([a EXCEPT !.lists[p[1]].tasks = RemoveAt(@, p[2])],
                    d, FALSE, NoID)

(***************************************************************************)
(* StorageInterface: dispatch on the gateway implementation b.             *)
(***************************************************************************)
CreateTodoList(b, a, d, in, clock, fault) ==
    IF b = "db" THEN DbCreateTodoList(a, d, in, clock, fault)
    ELSE FileCreateTodoList(a, d, in, clock)

UpdateTodoList(b, a, d, listID, in, fault) ==
    IF b = "db" THEN DbUpdateTodoList(a, d, listID, in, fault)
    ELSE FileUpdateTodoList(a, d, listID, in)

DeleteTodoList(b, a, d, listID, fault) ==
    IF b = "db" THEN DbDeleteTodoList(a, d, listID, fault)
    ELSE FileDeleteTodoList(a, d, listID)

CreateTask(b, a, d, listID, in, clock, fault) ==
    IF b = "db" THEN DbCreateTask(a, d, listID, in, clock, fault)
    ELSE FileCreateTask(a, d, listID, in, clock)

UpdateTask(b, a, d, listID, taskID, in, fault) ==
    IF b = "db" THEN DbUpdateTask(a, d, listID, taskID, in, fault)
    ELSE FileUpdateTask(a, d, listID, taskID, in)

\* ToggleTask that flips the flag in the snapshot and never writes the store.
ToggleTask_SnapshotOnly(b, a, d, listID, taskID, fault) ==
    FileToggleTask(a, d, listID, taskID)

ToggleTask(b, a, d, listID, taskID, fault) ==
    IF b = "db" THEN DbToggleTask(a, d, listID, taskID, fault)
    ELSE FileToggleTask(a, d, listID, taskID)

DeleteTask(b, a, d, listID, taskID, fault) ==
    IF b = "db" THEN DbDeleteTask(a, d, listID, taskID, fault)
    ELSE FileDeleteTask(a, d, listID, taskID)

(***************************************************************************)
(* The window layout manager (Layout).  A layout is a record                *)
(*   [windows, currentFocus, screenWidth, screenHeight]                     *)
(* where windows maps the IDs of the windows added so far to their Focused  *)
(* and Visible flags and their Position.                                    *)
(***************************************************************************)
MainWindow == 0
SidebarWindow == 1
StatusWindow == 2
HelpWindow == 3
FormWindow == 4

WindowIDs == {MainWindow, SidebarWindow, StatusWindow, HelpWindow, FormWindow}

\* Returned by GetFocusedWindow when no window is focused (nil).
NoWindow == -1

focusOrder == <<MainWindow, SidebarWindow, StatusWindow>>

Rect(x, y, w, h) == [X |-> x, Y |-> y, Width |-> w, Height |-> h]

\* Go's integer division truncates toward zero.
GoDiv(a, b) == IF a >= 0 THEN a \div b ELSE -((-a) \div b)

Window(focused, visible) ==
    [Focused |-> focused, Visible |-> visible, Position |-> Rect(0, 0, 0, 0)]

NewLayout ==
    [windows |-> << >>, currentFocus |-> 0, screenWidth |-> 0, screenHeight |-> 0]

HasWindow(l, id) == id \in DOMAIN l.windows

calculateLayout(l) ==
    IF l.screenWidth <= 0 \/ l.screenHeight <= 0 THEN l
    ELSE
      LET narrow == l.screenWidth < 35 + 45
          minSidebarWidth == IF narrow THEN GoDiv(l.screenWidth, 3) ELSE 35
          statusHeight == IF l.screenHeight < 3 + 10 THEN 2 ELSE 3
          third == GoDiv(l.screenWidth, 3)
          atLeast == IF third < minSidebarWidth THEN minSidebarWidth ELSE third
          sidebarWidth == IF atLeast > 50 THEN 50 ELSE atLeast
          mainWidth == l.screenWidth - sidebarWidth
          mainHeight == l.screenHeight - statusHeight
          formWidth == IF l.screenWidth < 70 THEN l.screenWidth - 4 ELSE 60
          formHeight == IF l.screenHeight < 15 THEN l.screenHeight - 3 ELSE 12
          helpWidth == IF l.screenWidth - 6 < 60 THEN l.screenWidth
                       ELSE l.screenWidth - 6
          helpHeight == IF l.screenHeight - 4 < 20 THEN l.screenHeight
                        ELSE l.screenHeight - 4
          pos(id) ==
              CASE id = SidebarWindow -> Rect(0, 0, sidebarWidth, mainHeight)
                [] id = MainWindow -> Rect(sidebarWidth, 0, mainWidth, mainHeight)
                [] id = StatusWindow -> Rect(0, mainHeight, l.screenWidth, statusHeight)
                [] id = FormWindow ->
                     Rect(GoDiv(l.screenWidth - formWidth, 2),
                          GoDiv(l.screenHeight - formHeight, 2),
                          formWidth, formHeight)
                [] id = HelpWindow ->
                     Rect(GoDiv(l.screenWidth - helpWidth, 2),
                          GoDiv(l.screenHeight - helpHeight, 2),
                          helpWidth, helpHeight)
      IN  [l EXCEPT !.windows =
              [id \in DOMAIN l.windows |->
                  [l.windows[id] EXCEPT !.Position = pos(id)]]]

\* SetScreenSize with the two dimensions stored the wrong way round.
SetScreenSize_Transposed(l, width, height) ==
    calculateLayout([l EXCEPT !.screenWidth = height, !.screenHeight = width])

SetScreenSize(l, width, height) ==
    calculateLayout([l EXCEPT !.screenWidth = width, !.screenHeight = height])

AddWindow(l, id, window) ==
    calculateLayout([l EXCEPT !.windows =
        [w \in DOMAIN l.windows \cup {id} |->
            IF w = id THEN window ELSE l.windows[w]]])

SetWindowVisible(l, id, visible) ==
    IF HasWindow(l, id)
    THEN calculateLayout([l EXCEPT !.windows[id].Visible = visible])
    ELSE l

\* GetFocusedWindow ranges over the window map and returns the first focused
\* window it meets; the iteration order of the map is not fixed, so with
\* several focused windows it can return any of them.
FocusedWindows(l) ==
    IF \E id \in DOMAIN l.windows : l.windows[id].Focused
    THEN {id \in DOMAIN l.windows : l.windows[id].Focused}
    ELSE {NoWindow}

\* GetFocusedWindowID, given the window cur that GetFocusedWindow returned.
GetFocusedWindowID(cur) == IF cur # NoWindow THEN cur ELSE MainWindow

\* The loop of NextFocus and PrevFocus without the visibility test: it stops
\* at the next window of focusOrder that exists.
RECURSIVE MoveFocus_NoSkip(_, _, _)
MoveFocus_NoSkip(l, delta, n) ==
    IF n = 0 THEN l
    ELSE LET c == (l.currentFocus + delta) % Len(focusOrder)
             id == focusOrder[c + 1]
             l1 == [l EXCEPT !.currentFocus = c]
         IN  IF HasWindow(l1, id)
             THEN [l1 EXCEPT !.windows[id].Focused = TRUE]
             ELSE MoveFocus_NoSkip(l1, delta, n - 1)

\* The loop of NextFocus and PrevFocus: step currentFocus by delta around
\* focusOrder until a visible window is met, at most len(focusOrder) times.
RECURSIVE MoveFocus(_, _, _)
MoveFocus(l, delta, n) ==
    IF n = 0 THEN l
    ELSE LET c == (l.currentFocus + delta) % Len(focusOrder)
             id == focusOrder[c + 1]
             l1 == [l EXCEPT !.currentFocus = c]
         IN  IF HasWindow(l1, id) /\ l1.windows[id].Visible
             THEN [l1 EXCEPT !.windows[id].Focused = TRUE]
             ELSE MoveFocus(l1, delta, n - 1)

ClearFocus(l, cur) ==
    IF cur # NoWindow THEN [l EXCEPT !.windows[cur].Focused = FALSE] ELSE l

\* NextFocus without the "clear current focus" step.
NextFocus_KeepCurrent(l, cur) == MoveFocus(l, 1, Len(focusOrder))

NextFocus(l, cur) == MoveFocus(ClearFocus(l, cur), 1, Len(focusOrder))

PrevFocus(l, cur) ==
    MoveFocus(ClearFocus(l, cur), Len(focusOrder) - 1, Len(focusOrder))

\* A SetFocus that leaves the focus where it is.
SetFocus_Ignored(l, id) == l

SetFocus(l, id) ==
    LET cleared == [l EXCEPT !.windows =
                       [w \in DOMAIN l.windows |->
                           [l.windows[w] EXCEPT !.Focused = FALSE]]]
        k == FirstIndex(focusOrder, LAMBDA f : f = id)
    IN  IF HasWindow(l, id) /\ l.windows[id].Visible
        THEN [cleared EXCEPT !.windows[id].Focused = TRUE,
                             !.currentFocus = IF k # 0 THEN k - 1 ELSE @]
        ELSE cleared

(***************************************************************************)
(* State.                                                                  *)
(***************************************************************************)
VARIABLES
    backend,      \* which StorageInterface implementation is in use: "db" or "file"
    app,          \* the models.Application snapshot
    db,           \* the SQLite store
    jsonFile,     \* the legacy JSON file: NoFile or the snapshot last written to it
    now,          \* the wall clock reading
    call,         \* the gateway call made by the last step (NoCall if none)
    chain,        \* the run of successive ToggleTask calls on one task; under
                  \* the controller, where the Help overlay was opened from
    formerTasks,  \* IDs of the tasks that were in a list when it was deleted
    layout,       \* the Layout
    ui,           \* the fields of the controller's Model other than app and layout
    events,       \* how many messages the event loop has delivered to Update
    cmds          \* the Save commands Update returned that have not finished

gwVars == <<backend, app, db, jsonFile>>

histVars == <<call, chain, formerTasks>>

uiVars == <<layout, ui, events, cmds>>

vars ==
    <<backend, app, db, jsonFile, now, call, chain, formerTasks, layout, ui, events,
      cmds>>

(***************************************************************************)
(* The controller's Model.  The list widgets are records [items, cursor];   *)
(* the text inputs are their values.                                        *)
(***************************************************************************)
ListsView == 0
TasksView == 1
CreateListView == 2
EditListView == 3
CreateTaskView == 4
EditTaskView == 5
SettingsView == 6
HelpView == 7

\* The zero value of a list widget, and a widget made by list.New(items).
NoItems == [items |-> <<>>, cursor |-> 0]

\* The zero value of the Model's own fields.
ZeroModel ==
    [state |-> ListsView, previousState |-> ListsView,
     todoListsList |-> NoItems, tasksList |-> NoItems,
     currentListID |-> NoID,
     titleInput |-> <<>>, descriptionInput |-> <<>>, deadlineInput |-> <<>>,
     formFocusIndex |-> 0, editing |-> FALSE, editingTaskID |-> NoID,
     width |-> 0, height |-> 0,
     message |-> "", messageTime |-> NoID, messageType |-> "",
     lastReminderCheck |-> NoID]

NoFile == [exists |-> FALSE, lists |-> <<>>]

NoCall == [op |-> "none", list |-> NoID, task |-> NoID, err |-> FALSE, id |-> NoID]

Call(op, listID, taskID, r) ==
    [op |-> op, list |-> listID, task |-> taskID, err |-> r.err, id |-> r.id]

NoChain ==
    [n |-> 0, list |-> NoID, task |-> NoID, app |-> EmptyApp, db |-> EmptyDb,
     file |-> NoFile]

\* The chain after a ToggleTask(listID, taskID) with result r.
ChainAfterToggle(listID, taskID, r) ==
    IF r.err THEN NoChain
    ELSE IF chain.n = 1 /\ chain.list = listID /\ chain.task = taskID
    THEN [chain EXCEPT !.n = 2]
    ELSE [n |-> 1, list |-> listID, task |-> taskID, app |-> app, db |-> db,
          file |-> jsonFile]

\* IDs of the tasks list listID holds, in the snapshot and in the store.
TasksOfList(a, d, listID) ==
    UNION {{a.lists[i].tasks[j].id : j \in 1..Len(a.lists[i].tasks)} :
              i \in {x \in 1..Len(a.lists) : a.lists[x].id = listID}}
    \cup {d.tasks[r].id : r \in {x \in 1..Len(d.tasks) : d.tasks[x].list_id = listID}}

(***************************************************************************)
(* Inputs of the gateway calls.                                            *)
(***************************************************************************)
TextA == <<"a">>

TextB == <<"b">>

TextD == <<"d">>

Time1 == <<2024, 12, 25, 9, 0>>

ListInputs ==
    {[name |-> TextA, description |-> <<>>],
     [name |-> TextB, description |-> TextD]}

TaskInputs ==
    {[title |-> TextA, description |-> <<>>, priority |-> Medium,
      deadline |-> NoDeadline],
     [title |-> TextB, description |-> TextD, priority |-> High,
      deadline |-> <<Time1>>]}

\* How many tasks the snapshot holds.
TaskCount(a) ==
    LET RECURSIVE Sum(_)
        Sum(i) == IF i = 0 THEN 0 ELSE Len(a.lists[i].tasks) + Sum(i - 1)
    IN  Sum(Len(a.lists))

\* Every ID the clock can produce: the calls are made with existing and with
\* unknown IDs.
IDArgs == 0..MaxClock

(***************************************************************************)
(* SpecGateway: the mutating calls of StorageInterface, issued directly.   *)
(***************************************************************************)
InitGateway ==
    /\ backend \in {"db", "file"}
    /\ app = EmptyApp
    /\ db = EmptyDb
    /\ jsonFile = NoFile
    /\ now = 0
    /\ call = NoCall
    /\ chain = NoChain
    /\ formerTasks = {}
    /\ layout = NewLayout
    /\ ui = ZeroModel
    /\ events = 0
    /\ cmds = <<>>

\* The wall clock advances.
Tick ==
    /\ now < MaxClock
    /\ now' = now + 1
    /\ call' = NoCall
    /\ UNCHANGED <<gwVars, chain, formerTasks, uiVars>>

\* The effect of a gateway call with result r on the stores.
Apply(r) ==
    /\ app' = r.app
    /\ db' = r.db
    /\ UNCHANGED <<backend, jsonFile, now, uiVars>>

GwCreateList ==
    /\ Len(app.lists) < MaxLists
    /\ \E in \in ListInputs, fault \in Faults1 :
         LET r == CreateTodoList(backend, app, db, in, now, fault)
         IN  /\ Apply(r)
             /\ call' = Call("CreateList", NoID, NoID, r)
             /\ chain' = NoChain
             /\ UNCHANGED formerTasks

GwUpdateList ==
    \E listID \in IDArgs, in \in ListInputs, fault \in Faults1 :
      LET r == UpdateTodoList(backend, app, db, listID, in, fault)
      IN  /\ Apply(r)
          /\ call' = Call("UpdateList", listID, NoID, r)
          /\ chain' = NoChain
          /\ UNCHANGED formerTasks

GwDeleteList ==
    \E listID \in IDArgs, fault \in Faults1 :
      LET r == DeleteTodoList(backend, app, db, listID, fault)
      IN  /\ Apply(r)
          /\ call' = Call("DeleteList", listID, NoID, r)
          /\ chain' = NoChain
          /\ formerTasks' = IF r.err THEN formerTasks
                            ELSE formerTasks \cup TasksOfList(app, db, listID)

GwCreateTask ==
    \E listID \in IDArgs, in \in TaskInputs, fault \in Faults1 :
      /\ ListIndex(app, listID) # 0 => TaskCount(app) < MaxTasks
      /\ LET r == CreateTask(backend, app, db, listID, in, now, fault)
         IN  /\ Apply(r)
             /\ call' = Call("CreateTask", listID, NoID, r)
             /\ chain' = NoChain
             /\ UNCHANGED formerTasks

GwUpdateTask ==
    \E listID \in IDArgs, taskID \in IDArgs, in \in TaskInputs, fault \in Faults1 :
      LET r == UpdateTask(backend, app, db, listID, taskID, in, fault)
      IN  /\ Apply(r)
          /\ call' = Call("UpdateTask", listID, taskID, r)
          /\ chain' = NoChain
          /\ UNCHANGED formerTasks

GwToggleTask ==
    \E listID \in IDArgs, taskID \in IDArgs, fault \in Faults :
      LET r == ToggleTask(backend, app, db, listID, taskID, fault)
      IN  /\ Apply(r)
          /\ call' = Call("ToggleTask", listID, taskID, r)
          /\ chain' = ChainAfterToggle(listID, taskID, r)
          /\ UNCHANGED formerTasks

GwDeleteTask ==
    \E listID \in IDArgs, taskID \in IDArgs, fault \in Faults1 :
      LET r == DeleteTask(backend, app, db, listID, taskID, fault)
      IN  /\ Apply(r)
          /\ call' = Call("DeleteTask", listID, taskID, r)
          /\ chain' = NoChain
          /\ UNCHANGED formerTasks

NextGateway ==
    \/ Tick
    \/ GwCreateList
    \/ GwUpdateList
    \/ GwDeleteList
    \/ GwCreateTask
    \/ GwUpdateTask
    \/ GwToggleTask
    \/ GwDeleteTask

SpecGateway == InitGateway /\ [][NextGateway]_vars

(***************************************************************************)
(* SpecLayout: the operations of the layout manager, issued directly on a   *)
(* layout built by NewLayout and AddWindow from any set of windows of which *)
(* at most one is focused.                                                  *)
(***************************************************************************)
ScreenSizes == {<<0, 0>>, <<80, 24>>, <<60, 12>>}

RECURSIVE AddWindows(_, _)
AddWindows(l, ws) ==
    IF DOMAIN ws = {} THEN l
    ELSE LET id == CHOOSE w \in DOMAIN ws : TRUE
         IN  AddWindows(AddWindow(l, id, ws[id]),
                        [w \in DOMAIN ws \ {id} |-> ws[w]])

InitLayout ==
    /\ backend = "db"
    /\ app = EmptyApp
    /\ db = EmptyDb
    /\ jsonFile = NoFile
    /\ now = 0
    /\ call = NoCall
    /\ chain = NoChain
    /\ formerTasks = {}
    /\ ui = ZeroModel
    /\ events = 0
    /\ cmds = <<>>
    /\ \E present \in SUBSET WindowIDs :
         \E focus \in present \cup {NoWindow} :
           \E visible \in SUBSET present :
             layout = AddWindows(NewLayout,
                         [id \in present |-> Window(id = focus, id \in visible)])

\* The Layout call made by a step, as the history records it.
LayoutCall(op, id) == [op |-> op, window |-> id]

\* How many NextFocus calls have been made in a row since Main, Sidebar and
\* Status were all visible with Main the focused panel (0 if that is not so).
RingChainAfter(op) ==
    LET atStart == /\ \A id \in {MainWindow, SidebarWindow, StatusWindow} :
                        HasWindow(layout, id) /\ layout.windows[id].Visible
                   /\ {id \in DOMAIN layout.windows : layout.windows[id].Focused}
                        = {MainWindow}
    IN  IF op # "NextFocus" THEN NoChain
        ELSE IF atStart THEN [NoChain EXCEPT !.n = 1]
        ELSE IF chain.n \in 1..2 THEN [NoChain EXCEPT !.n = chain.n + 1]
        ELSE NoChain

LayoutStep(l, op, id) ==
    /\ layout' = l
    /\ call' = LayoutCall(op, id)
    /\ chain' = RingChainAfter(op)
    /\ UNCHANGED <<gwVars, now, formerTasks, ui, events, cmds>>

LySetScreenSize ==
    \E size \in ScreenSizes :
      LayoutStep(SetScreenSize(layout, size[1], size[2]), "SetScreenSize", NoWindow)

LySetWindowVisible ==
    \E id \in WindowIDs, visible \in BOOLEAN :
      LayoutStep(SetWindowVisible(layout, id, visible), "SetWindowVisible", id)

LySetFocus == \E id \in WindowIDs : LayoutStep(SetFocus(layout, id), "SetFocus", id)

LyNextFocus ==
    \E cur \in FocusedWindows(layout) :
      LayoutStep(NextFocus(layout, cur), "NextFocus", NoWindow)

LyPrevFocus ==
    \E cur \in FocusedWindows(layout) :
      LayoutStep(PrevFocus(layout, cur), "PrevFocus", NoWindow)

NextLayout ==
    \/ LySetScreenSize
    \/ LySetWindowVisible
    \/ LySetFocus
    \/ LyNextFocus
    \/ LyPrevFocus

SpecLayout == InitLayout /\ [][NextLayout]_vars

(***************************************************************************)
(* What the store holds, read the way loadTodoLists and loadTasksForList   *)
(* query it: rows ORDER BY created_at ASC (rows with equal created_at stay *)
(* in rowid order).                                                        *)
(***************************************************************************)
InsertByCreatedAt(sorted, row) ==
    LET k == Cardinality({i \in 1..Len(sorted) :
                             sorted[i].created_at <= row.created_at})
    IN  SubSeq(sorted, 1, k) \o <<row>> \o SubSeq(sorted, k + 1, Len(sorted))

RECURSIVE OrderByCreatedAt(_)
OrderByCreatedAt(rows) ==
    IF rows = <<>> THEN <<>>
    ELSE InsertByCreatedAt(OrderByCreatedAt(SubSeq(rows, 1, Len(rows) - 1)),
                           rows[Len(rows)])

StoredLists(d) == OrderByCreatedAt(d.lists)

StoredTasks(d, listID) ==
    OrderByCreatedAt(SelectSeq(d.tasks, LAMBDA r : r.list_id = listID))

\* The snapshot and the store hold the same lists in the same order, the same
\* tasks in each, and the same field values.
Agrees(a, d) ==
    LET ls == StoredLists(d)
    IN  /\ Len(a.lists) = Len(ls)
        /\ \A r \in 1..Len(d.tasks) : DbHasList(d, d.tasks[r].list_id)
        /\ \A i \in 1..Len(a.lists) :
             LET l == a.lists[i]
                 ts == StoredTasks(d, l.id)
             IN  /\ l.id = ls[i].id
                 /\ l.name = ls[i].name
                 /\ l.description = ls[i].description
                 /\ Len(l.tasks) = Len(ts)
                 /\ \A j \in 1..Len(l.tasks) :
                      /\ l.tasks[j].id = ts[j].id
                      /\ l.tasks[j].title = ts[j].title
                      /\ l.tasks[j].description = ts[j].description
                      /\ l.tasks[j].priority = ts[j].priority
                      /\ l.tasks[j].completed = ts[j].completed
                      /\ DeadlineStr(l.tasks[j].deadline) = ts[j].deadline

\* The completed flags of the snapshot, by position, and of the store, by row.
Flags(a) ==
    [i \in 1..Len(a.lists) |->
        [j \in 1..Len(a.lists[i].tasks) |-> a.lists[i].tasks[j].completed]]

DbFlags(d) == [r \in 1..Len(d.tasks) |-> d.tasks[r].completed]

ListOps == {"UpdateList", "DeleteList", "CreateTask"}

TaskOps == {"UpdateTask", "ToggleTask", "DeleteTask"}

\* The call names a list (or a task) that neither the snapshot nor the store holds.
UnknownTarget(c, a, d) ==
    \/ c.op \in ListOps /\ ListIndex(a, c.list) = 0 /\ ~DbHasList(d, c.list)
    \/ /\ c.op \in TaskOps
       /\ FindTaskAnyList(a, c.list, c.task)[2] = 0
       /\ ~DbHasTask(d, c.list, c.task)

(***************************************************************************)
(* The controller (Model).  Its handlers are operators on a record s that   *)
(* holds the Model's own fields together with what the Model points to:     *)
(* s.app, s.layout, the store s.db behind s.storage, and s.call, the gateway *)
(* call made while handling the current event.                              *)
(* A tea.KeyMsg is [name, runes]: name is msg.String(), which key.Matches   *)
(* compares with the bindings, and runes is the text the key carries.       *)
(***************************************************************************)
keys ==
    [Up |-> {"up", "k"}, Down |-> {"down", "j"},
     Enter |-> {"enter"}, Back |-> {"esc"},
     Quit |-> {"ctrl+c", "q"}, Help |-> {"?"},
     NewList |-> {"n"}, NewTask |-> {"a"}, Edit |-> {"e"}, Delete |-> {"d"},
     Toggle |-> {" "}, Settings |-> {"s"},
     Tab |-> {"tab"}, ShiftTab |-> {"shift+tab"},
     NextWindow |-> {"ctrl+right", "ctrl+l"},
     PrevWindow |-> {"ctrl+left", "ctrl+h"},
     FocusMain |-> {"ctrl+m"}, FocusSidebar |-> {"ctrl+s"}]

Matches(msg, binding) == msg.name \in binding

\* An isInFormState that knows the list forms only.
isInFormState_ListFormsOnly(s) == s.state \in {CreateListView, EditListView}

isInFormState(s) ==
    s.state \in {CreateListView, EditListView, CreateTaskView, EditTaskView}

\* showMessageWithType that ignores the type it is given.
showMessageWithType_AlwaysInfo(s, msg, msgType, clock) ==
    [s EXCEPT !.message = msg, !.messageType = "info", !.messageTime = clock]

showMessageWithType(s, msg, msgType, clock) ==
    [s EXCEPT !.message = msg, !.messageType = msgType, !.messageTime = clock]

showMessage(s, msg, clock) == showMessageWithType(s, msg, "info", clock)

\* Index in s.app.lists of the list with ID currentListID, 0 for nil.
getCurrentList(s) == ListIndex(s.app, s.currentListID)

listItem(l) == [id |-> l.id, title |-> l.name, description |-> l.description]

taskItem(t) ==
    [id |-> t.id, title |-> t.title, description |-> t.description,
     completed |-> t.completed, priority |-> t.priority, deadline |-> t.deadline]

\* list.New(items, ...): a fresh widget with the cursor on the first item.
NewItems(items) == [items |-> items, cursor |-> 0]

\* A controller whose sidebar widget is never rebuilt.
updateTodoListsList_Stale(s) == s

\* A controller whose task widget is never rebuilt.
updateTasksList_Stale(s) == s

updateTodoListsList(s) ==
    [s EXCEPT !.todoListsList =
        NewItems([i \in 1..Len(s.app.lists) |-> listItem(s.app.lists[i])])]

updateTasksList(s) ==
    LET i == getCurrentList(s)
    IN  IF i = 0 THEN s
        ELSE LET shown == SelectSeq(s.app.lists[i].tasks,
                              LAMBDA t : s.app.settings.ShowCompleted \/ ~t.completed)
             IN  [s EXCEPT !.tasksList =
                     NewItems([j \in 1..Len(shown) |-> taskItem(shown[j])])]

\* list.Model.SelectedItem: index of the selected item, 0 for nil.
SelectedItem(w) ==
    IF Len(w.items) = 0 \/ Len(w.items) <= w.cursor THEN 0 ELSE w.cursor + 1

\* list.Model.Update for a key: the cursor keys move the selection, every other
\* key of the input alphabet leaves a one-page unfiltered list as it is (the
\* command it returns for its Quit binding is ListWidgetQuits, below).
ListWidgetUpdate(w, msg) ==
    IF Matches(msg, keys.Up)
    THEN [w EXCEPT !.cursor = IF @ > 0 THEN @ - 1 ELSE 0]
    ELSE IF Matches(msg, keys.Down)
    THEN [w EXCEPT !.cursor = IF @ + 1 < Len(w.items) THEN @ + 1 ELSE @]
    ELSE w

\* textinput.Model.Update for a key, the cursor being at the end of the value:
\* ctrl+u deletes what is before the cursor, a key that carries runes inserts them.
TextInputUpdate(value, msg) ==
    IF msg.name = "ctrl+u" THEN <<>>
    ELSE value \o msg.runes

resetForm(s) ==
    [s EXCEPT !.titleInput = <<>>, !.descriptionInput = <<>>,
              !.deadlineInput = <<>>, !.formFocusIndex = 0,
              !.editing = FALSE, !.editingTaskID = NoID]

prepareEditListForm(s) ==
    LET i == getCurrentList(s)
    IN  IF i = 0 THEN s
        ELSE [s EXCEPT !.titleInput = s.app.lists[i].name,
                       !.descriptionInput = s.app.lists[i].description,
                       !.deadlineInput = <<>>, !.formFocusIndex = 0,
                       !.editing = TRUE]

prepareEditTaskForm(s) ==
    LET i == getCurrentList(s)
        j == IF i = 0 THEN 0 ELSE TaskIndex(s.app, i, s.editingTaskID)
    IN  IF j = 0 THEN s
        ELSE LET task == s.app.lists[i].tasks[j]
             IN  [s EXCEPT !.titleInput = task.title,
                           !.descriptionInput = task.description,
                           !.deadlineInput =
                               IF task.deadline # NoDeadline
                               THEN FormatMinute(task.deadline[1]) ELSE <<>>,
                           !.formFocusIndex = 0, !.editing = TRUE]

\* The gateway call's result taken into s.
AfterCall(s, op, listID, taskID, r) ==
    [s EXCEPT !.app = r.app, !.db = r.db, !.call = Call(op, listID, taskID, r)]

FocusLayout(s, id) == [s EXCEPT !.layout = SetFocus(s.layout, id)]

toggleHelp(s) ==
    IF ~HasWindow(s.layout, HelpWindow) THEN s
    ELSE IF s.layout.windows[HelpWindow].Visible
    THEN FocusLayout([s EXCEPT !.layout = SetWindowVisible(@, HelpWindow, FALSE)],
                     MainWindow)
    ELSE FocusLayout([s EXCEPT !.layout = SetWindowVisible(@, HelpWindow, TRUE)],
                     HelpWindow)

updateListsView(s, msg, clock, fault, cur) ==
    LET sel == SelectedItem(s.todoListsList)
        item == s.todoListsList.items[sel]
        widget == [s EXCEPT !.todoListsList = ListWidgetUpdate(@, msg)]
    IN  IF GetFocusedWindowID(cur) # SidebarWindow THEN s
        ELSE IF Matches(msg, keys.NewList)
        THEN [resetForm(s) EXCEPT !.state = CreateListView]
        ELSE IF Matches(msg, keys.Settings)
        THEN FocusLayout([s EXCEPT !.previousState = s.state, !.state = SettingsView],
                         MainWindow)
        ELSE IF Matches(msg, keys.Enter) /\ sel # 0
        THEN LET s1 == updateTasksList([s EXCEPT !.currentListID = item.id])
                 s2 == FocusLayout([s1 EXCEPT !.state = TasksView], MainWindow)
             IN  showMessageWithType(s2, "Switched to", "success", clock)
        ELSE IF Matches(msg, keys.Edit) /\ sel # 0
        THEN [prepareEditListForm([s EXCEPT !.currentListID = item.id])
                 EXCEPT !.state = EditListView]
        ELSE IF Matches(msg, keys.Delete) /\ sel # 0
        THEN LET r == DeleteTodoList(s.storage, s.app, s.db, item.id, fault)
                 s1 == AfterCall(s, "DeleteList", item.id, NoID, r)
             IN  IF r.err
                 THEN LET s2 == showMessageWithType(s1, "Error", "error", clock)
                      IN  [s2 EXCEPT !.todoListsList = ListWidgetUpdate(@, msg)]
                 ELSE showMessageWithType(updateTodoListsList(s1),
                          "List deleted successfully", "success", clock)
        ELSE widget

updateTasksView(s, msg, clock, fault, cur) ==
    LET sel == SelectedItem(s.tasksList)
        item == s.tasksList.items[sel]
        Widget(t) == IF Len(t.tasksList.items) # 0
                     THEN [t EXCEPT !.tasksList = ListWidgetUpdate(@, msg)]
                     ELSE t
    IN  IF GetFocusedWindowID(cur) # MainWindow THEN s
        ELSE IF Matches(msg, keys.Back) THEN FocusLayout(s, SidebarWindow)
        ELSE IF Matches(msg, keys.NewTask)
        THEN [resetForm(s) EXCEPT !.state = CreateTaskView]
        ELSE IF Matches(msg, keys.Edit) /\ sel # 0
        THEN [prepareEditTaskForm([s EXCEPT !.editingTaskID = item.id])
                 EXCEPT !.state = EditTaskView]
        ELSE IF Matches(msg, keys.Toggle) /\ sel # 0
        THEN LET r == ToggleTask(s.storage, s.app, s.db, s.currentListID, item.id, fault)
                 s1 == AfterCall(s, "ToggleTask", s.currentListID, item.id, r)
             IN  IF r.err
                 THEN Widget(showMessageWithType(s1, "Error", "error", clock))
                 ELSE IF item.completed
                 THEN showMessageWithType(updateTasksList(s1),
                          "Task uncompleted", "info", clock)
                 ELSE showMessageWithType(updateTasksList(s1),
                          "Task completed", "success", clock)
        ELSE IF Matches(msg, keys.Delete) /\ sel # 0
        THEN LET r == DeleteTask(s.storage, s.app, s.db, s.currentListID, item.id, fault)
                 s1 == AfterCall(s, "DeleteTask", s.currentListID, item.id, r)
             IN  IF r.err
                 THEN Widget(showMessageWithType(s1, "Error", "error", clock))
                 ELSE showMessageWithType(updateTasksList(s1),
                          "Task deleted successfully", "success", clock)
        ELSE Widget(s)

\* A form that saves whatever the title input holds.
TitleMissing_Never(s) == FALSE

\* The guard both form handlers put before saving: m.titleInput.Value() == "".
TitleMissing(s) == s.titleInput = <<>>

\* The tail of both form handlers: the key goes to the input formFocusIndex names.
FormInputUpdate(s, msg, fields) ==
    IF s.formFocusIndex = 0
    THEN [s EXCEPT !.titleInput = TextInputUpdate(@, msg)]
    ELSE IF s.formFocusIndex = 1
    THEN [s EXCEPT !.descriptionInput = TextInputUpdate(@, msg)]
    ELSE IF s.formFocusIndex = 2 /\ fields = 3
    THEN [s EXCEPT !.deadlineInput = TextInputUpdate(@, msg)]
    ELSE s

updateListForm(s, msg, clock, fault) ==
    IF Matches(msg, keys.Back)
    THEN FocusLayout([s EXCEPT !.state = ListsView], SidebarWindow)
    ELSE IF Matches(msg, keys.Tab)
    THEN [s EXCEPT !.formFocusIndex = (@ + 1) % 2]
    ELSE IF Matches(msg, keys.ShiftTab)
    THEN [s EXCEPT !.formFocusIndex = (@ - 1 + 2) % 2]
    ELSE IF Matches(msg, keys.Enter)
    THEN IF TitleMissing(s)
         THEN showMessageWithType(s, "Title is required", "warning", clock)
         ELSE
           LET in == [name |-> s.titleInput, description |-> s.descriptionInput]
               r == IF s.editing
                    THEN UpdateTodoList(s.storage, s.app, s.db, s.currentListID, in, fault)
                    ELSE CreateTodoList(s.storage, s.app, s.db, in, clock, fault)
               s1 == IF s.editing
                     THEN AfterCall(s, "UpdateList", s.currentListID, NoID, r)
                     ELSE AfterCall(s, "CreateList", NoID, NoID, r)
               s2 == IF s.editing
                     THEN showMessageWithType(s1, "List updated successfully",
                                              "success", clock)
                     ELSE showMessageWithType(s1, "List created successfully",
                                              "success", clock)
           IN  IF s.editing /\ r.err
               THEN showMessageWithType(s1, "Error", "error", clock)
               ELSE FocusLayout([updateTodoListsList(s2) EXCEPT !.state = ListsView],
                                SidebarWindow)
    ELSE FormInputUpdate(s, msg, 2)

updateTaskForm(s, msg, clock, fault) ==
    IF Matches(msg, keys.Back)
    THEN FocusLayout([s EXCEPT !.state = TasksView], MainWindow)
    ELSE IF Matches(msg, keys.Tab)
    THEN [s EXCEPT !.formFocusIndex = (@ + 1) % 3]
    ELSE IF Matches(msg, keys.ShiftTab)
    THEN [s EXCEPT !.formFocusIndex = (@ - 1 + 3) % 3]
    ELSE IF Matches(msg, keys.Enter)
    THEN IF TitleMissing(s)
         THEN showMessageWithType(s, "Title is required", "warning", clock)
         ELSE
           LET parsed == ParseDeadline(s.deadlineInput)
               in == [title |-> s.titleInput, description |-> s.descriptionInput,
                      priority |-> Medium,
                      deadline |-> IF s.deadlineInput # <<>>
                                   THEN <<parsed.t>> ELSE NoDeadline]
               r == IF s.editing
                    THEN UpdateTask(s.storage, s.app, s.db, s.currentListID,
                                    s.editingTaskID, in, fault)
                    ELSE CreateTask(s.storage, s.app, s.db, s.currentListID, in,
                                    clock, fault)
               s1 == IF s.editing
                     THEN AfterCall(s, "UpdateTask", s.currentListID, s.editingTaskID, r)
                     ELSE AfterCall(s, "CreateTask", s.currentListID, NoID, r)
               s2 == IF s.editing
                     THEN showMessageWithType(s1, "Task updated successfully",
                                              "success", clock)
                     ELSE showMessageWithType(s1, "Task created successfully",
                                              "success", clock)
           IN  IF s.deadlineInput # <<>> /\ ~parsed.ok
               THEN showMessageWithType(s,
                        "Invalid deadline format (use YYYY-MM-DD HH:MM)",
                        "warning", clock)
               ELSE IF r.err
               THEN showMessageWithType(s1, "Error", "error", clock)
               ELSE FocusLayout([updateTasksList(s2) EXCEPT !.state = TasksView],
                                MainWindow)
    ELSE FormInputUpdate(s, msg, 3)

updateSettingsView(s, msg) ==
    IF Matches(msg, keys.Back)
    THEN FocusLayout([s EXCEPT !.state = TasksView], MainWindow)
    ELSE s

\* Where Update sends a key: one of its global keys, a form handler, the help
\* window, or the handler of the focused window.
Route(s, msg, cur) ==
    IF Matches(msg, keys.Quit) THEN "quit"
    ELSE IF Matches(msg, keys.Help) THEN "help"
    ELSE IF Matches(msg, keys.NextWindow) THEN "next"
    ELSE IF Matches(msg, keys.PrevWindow) THEN "prev"
    ELSE IF Matches(msg, keys.FocusMain) THEN "main"
    ELSE IF Matches(msg, keys.FocusSidebar) THEN "sidebar"
    ELSE IF s.state \in {CreateListView, EditListView} THEN "listForm"
    ELSE IF s.state \in {CreateTaskView, EditTaskView} THEN "taskForm"
    ELSE IF GetFocusedWindowID(cur) = HelpWindow THEN "helpWindow"
    ELSE IF GetFocusedWindowID(cur) = SidebarWindow THEN "lists"
    ELSE IF GetFocusedWindowID(cur) = MainWindow
    THEN IF s.state = SettingsView THEN "settings" ELSE "tasks"
    ELSE "none"

\* Update for a tea.KeyMsg.  clock is what time.Now() returns during the
\* event, fault the I/O fault met by the gateway call (if one is made), cur the
\* window GetFocusedWindow returns.
UpdateKey(s, msg, clock, fault, cur) ==
    LET route == Route(s, msg, cur)
    IN  CASE route = "quit" -> s
          [] route = "help" -> toggleHelp(s)
          [] route = "next" -> [s EXCEPT !.layout = NextFocus(@, cur)]
          [] route = "prev" -> [s EXCEPT !.layout = PrevFocus(@, cur)]
          [] route = "main" -> FocusLayout(s, MainWindow)
          [] route = "sidebar" -> FocusLayout(s, SidebarWindow)
          [] route = "listForm" -> updateListForm(s, msg, clock, fault)
          [] route = "taskForm" -> updateTaskForm(s, msg, clock, fault)
          [] route = "helpWindow" ->
               IF Matches(msg, keys.Back) \/ Matches(msg, keys.Help)
               THEN toggleHelp(s) ELSE s
          [] route = "lists" -> updateListsView(s, msg, clock, fault, cur)
          [] route = "settings" -> updateSettingsView(s, msg)
          [] route = "tasks" -> updateTasksView(s, msg, clock, fault, cur)
          [] OTHER -> s

\* Update for a tea.WindowSizeMsg.
UpdateWindowSize(s, width, height) ==
    [s EXCEPT !.width = width, !.height = height,
              !.layout = SetScreenSize(@, width, height)]

\* View: updateWindowContents shows the form window in the form states and
\* hides it in the others.
View(s) ==
    [s EXCEPT !.layout = SetWindowVisible(@, FormWindow, isInFormState(s))]

initializeWindows(l) ==
    LET l1 == AddWindow(l, SidebarWindow, Window(FALSE, TRUE))
        l2 == AddWindow(l1, MainWindow, Window(TRUE, TRUE))
        l3 == AddWindow(l2, StatusWindow, Window(FALSE, TRUE))
        l4 == AddWindow(l3, FormWindow, Window(FALSE, FALSE))
    IN  AddWindow(l4, HelpWindow, Window(FALSE, FALSE))

\* NewModel on the snapshot a that Load returned from the store d, when
\* time.Now() reads clock.
NewModel(a, d, clock) ==
    LET s0 == ZeroModel @@
                [app |-> a, db |-> d, storage |-> "db", call |-> NoCall,
                 layout |-> NewLayout]
        s1 == [s0 EXCEPT !.state = ListsView, !.width = 80, !.height = 24,
                         !.messageType = "info", !.lastReminderCheck = clock]
        s2 == [s1 EXCEPT !.layout = initializeWindows(SetScreenSize(@, 80, 24))]
        s3 == updateTodoListsList(s2)
    IN  IF Len(a.lists) > 0 /\ s3.currentListID = NoID
        THEN updateTasksList([s3 EXCEPT !.currentListID = a.lists[1].id])
        ELSE s3

(***************************************************************************)
(* SpecScreen: the terminal reports a size.  The initial states are those   *)
(* of Update's tea.WindowSizeMsg case once it has stored the reported size   *)
(* in m.width and m.height of the Model that NewModel built (80 by 24, with  *)
(* the geometry of that size); the step is its SetScreenSize call.           *)
(***************************************************************************)
\* Largest terminal width and height reported.
MaxWidth == 156

MaxHeight == 30

InitScreen ==
    /\ backend = "db"
    /\ app = EmptyApp
    /\ db = EmptyDb
    /\ jsonFile = NoFile
    /\ now = 0
    /\ call = NoCall
    /\ chain = NoChain
    /\ formerTasks = {}
    /\ events = 0
    /\ cmds = <<>>
    /\ LET s == NewModel(app, db, now)
       IN  /\ layout = s.layout
           /\ \E width \in 1..MaxWidth, height \in 1..MaxHeight :
                ui = [f \in DOMAIN ZeroModel |->
                        IF f = "width" THEN width
                        ELSE IF f = "height" THEN height ELSE s[f]]

ScSetScreenSize ==
    /\ events = 0
    /\ layout' = SetScreenSize(layout, ui.width, ui.height)
    /\ call' = LayoutCall("SetScreenSize", NoWindow)
    /\ events' = events + 1
    /\ UNCHANGED <<gwVars, now, chain, formerTasks, ui, cmds>>

NextScreen == ScSetScreenSize

SpecScreen == InitScreen /\ [][NextScreen]_vars

(***************************************************************************)
(* Spec: the controller in the event loop.  Each step is one event: Update  *)
(* handles it and View is run on the result.                                *)
(***************************************************************************)
\* Longest text typed key by key into one input.
MaxTextLen == 1

\* Longest run of messages delivered to Update.
MaxEvents == 6

Key(name) == [name |-> name, runes |-> <<>>]

RuneKey(c) == [name |-> c, runes |-> <<c>>]

\* Several runes arriving in one KeyMsg (pasted text); it matches no binding.
Paste(text) == [name |-> "paste", runes |-> text]

EnterKey == Key("enter")

DeadlineGood == FormatMinute(Time1)

\* DeadlineGood written with two spaces between the date and the time.
DeadlineWide == SubSeq(DeadlineGood, 1, 11) \o <<" ">> \o SubSeq(DeadlineGood, 12, 16)

\* 30 February: a well-formed text that names no date.
DeadlineBadDay ==
    <<"2", "0", "2", "4", "-", "0", "2", "-", "3", "0", " ", "0", "9", ":", "0", "0">>

KeyInputs ==
    {Key("enter"), Key("esc"), Key("tab"), Key("shift+tab"), Key("up"), Key("down"),
     Key("ctrl+right"), Key("ctrl+left"), Key("ctrl+m"), Key("ctrl+s"), Key("ctrl+u"),
     RuneKey("q"), RuneKey("?"), RuneKey("n"), RuneKey("a"), RuneKey("e"),
     RuneKey("d"), RuneKey(" "), RuneKey("s"),
     Paste(DeadlineGood), Paste(DeadlineWide), Paste(DeadlineBadDay)}

\* The characters typed into the inputs.
TypedText == {TextA}

ControllerSizes == {<<80, 24>>, <<100, 30>>}

Bundle ==
    ui @@ [app |-> app, db |-> db, layout |-> layout, storage |-> backend,
           call |-> NoCall]

FocusedPanels(l) == {id \in DOMAIN l.windows : l.windows[id].Focused}

Visible(l, id) == HasWindow(l, id) /\ l.windows[id].Visible

\* History of the Help overlay across an event that ends in s: while the
\* overlay is shown, the view state and the focused windows of the state in
\* which it was opened.
HelpChain(s) ==
    IF ~Visible(s.layout, HelpWindow) THEN NoChain
    ELSE IF Visible(layout, HelpWindow) THEN chain
    ELSE [n |-> 1, state |-> ui.state, focus |-> FocusedPanels(layout)]

\* The event loop takes the Model s that Update and View left and hands the
\* commands c to the runtime.
CommitCmds(s, c) ==
    /\ events < MaxEvents
    /\ events' = events + 1
    /\ app' = s.app
    /\ db' = s.db
    /\ layout' = s.layout
    /\ call' = s.call
    /\ ui' = [f \in DOMAIN ui |-> s[f]]
    /\ chain' = HelpChain(s)
    /\ cmds' = c
    /\ UNCHANGED <<backend, jsonFile, now, formerTasks>>

\* The same with the commands left out of the account.
Commit(s) == CommitCmds(s, cmds)

FocusedInput(s) ==
    IF s.formFocusIndex = 0 THEN s.titleInput
    ELSE IF s.formFocusIndex = 1 THEN s.descriptionInput
    ELSE s.deadlineInput

\* The bounds on the keys sent: in a form, text is typed from TypedText up to
\* MaxTextLen characters per input and a deadline text is pasted into the empty
\* deadline input; pasted text and ctrl+u are sent to forms only.
Admitted(s, msg, route) ==
    IF route \in {"listForm", "taskForm"}
    THEN \/ msg.runes = <<>>
         \/ /\ msg.name # "paste"
            /\ msg.runes \in TypedText
            /\ Len(FocusedInput(s)) < MaxTextLen
         \/ /\ msg.name = "paste"
            /\ route = "taskForm"
            /\ s.formFocusIndex = 2
            /\ s.deadlineInput = <<>>
    ELSE msg.name \notin {"paste", "ctrl+u"}

FaultsOf(msg) == IF msg.name \in {"enter", "d", " "} THEN Faults ELSE {"none"}

\* One KeyMsg through Update and View, cur being the window GetFocusedWindow
\* returns during the event.
Deliver(msg, cur) ==
    /\ Admitted(Bundle, msg, Route(Bundle, msg, cur))
    /\ \E fault \in FaultsOf(msg) :
         Commit(View(UpdateKey(Bundle, msg, now, fault, cur)))

KeyStep(msg) == \E cur \in FocusedWindows(layout) : Deliver(msg, cur)

GlobalRoutes == {"quit", "help", "next", "prev", "main", "sidebar"}

\* The store found at start-up, written at clock reading 0: one list with one
\* task.  The priority column holds whatever the earlier writer stored (the
\* JSON import copies it from the file); here it is High.
SeedStore ==
    LET l == DbCreateTodoList(EmptyApp, EmptyDb,
                 [name |-> TextA, description |-> <<>>], 0, "none")
    IN  DbCreateTask(l.app, l.db, l.id,
            [title |-> TextA, description |-> <<>>, priority |-> High,
             deadline |-> NoDeadline], 0, "none")

\* The controller starts on an empty store, or on the store of the earlier
\* session at a later clock reading.
InitController ==
    /\ backend = "db"
    /\ jsonFile = NoFile
    /\ call = NoCall
    /\ chain = NoChain
    /\ formerTasks = {}
    /\ events = 0
    /\ cmds = <<>>
    /\ \/ app = EmptyApp /\ db = EmptyDb /\ now = 0
       \/ app = SeedStore.app /\ db = SeedStore.db /\ now = 1
    /\ LET s == View(NewModel(app, db, now))
       IN  /\ layout = s.layout
           /\ ui = [f \in DOMAIN ZeroModel |-> s[f]]

GlobalKey ==
    \E msg \in KeyInputs, cur \in FocusedWindows(layout) :
      /\ Route(Bundle, msg, cur) \in GlobalRoutes
      /\ Deliver(msg, cur)

ListFormKey ==
    \E msg \in KeyInputs, cur \in FocusedWindows(layout) :
      /\ Route(Bundle, msg, cur) = "listForm"
      /\ Deliver(msg, cur)

TaskFormKey ==
    \E msg \in KeyInputs, cur \in FocusedWindows(layout) :
      /\ Route(Bundle, msg, cur) = "taskForm"
      /\ Deliver(msg, cur)

HelpWindowKey ==
    \E msg \in KeyInputs, cur \in FocusedWindows(layout) :
      /\ Route(Bundle, msg, cur) = "helpWindow"
      /\ Deliver(msg, cur)

ListsViewKey ==
    \E msg \in KeyInputs, cur \in FocusedWindows(layout) :
      /\ Route(Bundle, msg, cur) = "lists"
      /\ Deliver(msg, cur)

TasksViewKey ==
    \E msg \in KeyInputs, cur \in FocusedWindows(layout) :
      /\ Route(Bundle, msg, cur) = "tasks"
      /\ Deliver(msg, cur)

SettingsViewKey ==
    \E msg \in KeyInputs, cur \in FocusedWindows(layout) :
      /\ Route(Bundle, msg, cur) = "settings"
      /\ Deliver(msg, cur)

UnroutedKey ==
    \E msg \in KeyInputs, cur \in FocusedWindows(layout) :
      /\ Route(Bundle, msg, cur) = "none"
      /\ Deliver(msg, cur)

WindowSize ==
    \E size \in ControllerSizes :
      /\ size[1] > 0 /\ size[2] > 0
      /\ Commit(View(UpdateWindowSize(Bundle, size[1], size[2])))

Next ==
    \/ Tick
    \/ GlobalKey
    \/ ListFormKey
    \/ TaskFormKey
    \/ HelpWindowKey
    \/ ListsViewKey
    \/ TasksViewKey
    \/ SettingsViewKey
    \/ UnroutedKey
    \/ WindowSize

Spec == InitController /\ [][Next]_vars

(***************************************************************************)
(* SpecReminder: the controller receives reminderMsg events while the clock *)
(* advances, and builds task items (whose overdue and dueSoon flags read    *)
(* the clock) for the tasks of the snapshot.                                *)
(***************************************************************************)
\* The last clock reading.
MaxTicks == 6

\* The test of the reminder scan without its "not completed" condition.
Reminds_CompletedToo(t, clock, window) ==
    /\ t.deadline # NoDeadline
    /\ Until(t.deadline[1], clock) > 0
    /\ Until(t.deadline[1], clock) <= window

\* The test of the reminder scan on one task.
Reminds(t, clock, window) ==
    /\ t.deadline # NoDeadline
    /\ ~t.completed
    /\ Until(t.deadline[1], clock) > 0
    /\ Until(t.deadline[1], clock) <= window

\* The loops of checkForDueReminders from task j of list i on: <<i, j>> of the
\* task they stop at, <<0, 0>> if they run to the end.
RECURSIVE ScanFrom(_, _, _, _, _)
ScanFrom(a, i, j, clock, window) ==
    IF i > Len(a.lists) THEN <<0, 0>>
    ELSE IF j > Len(a.lists[i].tasks) THEN ScanFrom(a, i + 1, 1, clock, window)
    ELSE IF Reminds(a.lists[i].tasks[j], clock, window) THEN <<i, j>>
    ELSE ScanFrom(a, i, j + 1, clock, window)

\* checkForDueReminders that scans on every reminderMsg.
Throttled_Never(s, clock) == FALSE

\* The throttle of checkForDueReminders: time.Since(m.lastReminderCheck) < time.Minute.
Throttled(s, clock) == clock - s.lastReminderCheck < Minute

\* checkForDueReminders when the clock reads clock.  s.call records whether
\* the scan ran, how many messages it showed, and the task, title and rounded
\* minutes the message names.
checkForDueReminders(s, clock) ==
    LET skipped == [op |-> "reminderMsg", ran |-> FALSE, shown |-> 0,
                    hit |-> <<0, 0>>, title |-> <<>>, dueIn |-> 0]
    IN  IF Throttled(s, clock) THEN [s EXCEPT !.call = skipped]
        ELSE
          LET s1 == [s EXCEPT !.lastReminderCheck = clock]
              reminderWindow == s.app.settings.ReminderMinutes * Minute
              hit == ScanFrom(s.app, 1, 1, clock, reminderWindow)
          IN  IF hit = <<0, 0>>
              THEN [s1 EXCEPT !.call = [skipped EXCEPT !.ran = TRUE]]
              ELSE LET task == s.app.lists[hit[1]].tasks[hit[2]]
                       left == Until(task.deadline[1], clock)
                   IN  [showMessage(s1, "Task is due", clock) EXCEPT !.call =
                           [op |-> "reminderMsg", ran |-> TRUE, shown |-> 1,
                            hit |-> hit, title |-> task.title,
                            dueIn |-> RoundMinute(left)]]

\* Update for a reminderMsg.
UpdateReminder(s, clock) == checkForDueReminders(s, clock)

\* Deadlines of the tasks: a minute before Epoch, 2 and 3 minutes after it,
\* and a minute more than 24 hours after it.
ReminderDeadlines ==
    {<<2024, 12, 25, 8, 57>>, Time1, <<2024, 12, 25, 9, 1>>, <<2024, 12, 26, 8, 59>>}

ReminderWindows == {2, 60}

\* Task k of the snapshot: an open task with any of the deadlines or none, or a
\* completed one due 2 minutes after Epoch.
ReminderTasks(k) ==
    {[id |-> 10 + k, title |-> IF k = 1 THEN TextA ELSE TextB,
      description |-> <<>>, completed |-> c, priority |-> Medium, deadline |-> d] :
        c \in {FALSE},
        d \in {<<t>> : t \in ReminderDeadlines} \cup {NoDeadline}}
    \cup {[id |-> 10 + k, title |-> IF k = 1 THEN TextA ELSE TextB,
           description |-> <<>>, completed |-> TRUE, priority |-> Medium,
           deadline |-> <<Time1>>]}

\* The task sequences of one or two lists that hold ts in this order.
Splits(ts) ==
    {<<ts>>}
    \cup {<<SubSeq(ts, 1, k), SubSeq(ts, k + 1, Len(ts))>> : k \in 0..Len(ts)}

ReminderApps ==
    LET taskSeqs == {<<>>} \cup {<<t>> : t \in ReminderTasks(1)}
                    \cup {<<t, u>> : t \in ReminderTasks(1), u \in ReminderTasks(2)}
    IN  {[lists |-> [i \in 1..Len(sp) |->
                        [id |-> i, name |-> TextA, description |-> <<>>,
                         tasks |-> sp[i]]],
          settings |-> [DefaultSettings EXCEPT !.ReminderMinutes = w]] :
            sp \in UNION {Splits(ts) : ts \in taskSeqs}, w \in ReminderWindows}

InitReminder ==
    /\ backend = "db"
    /\ db = EmptyDb
    /\ jsonFile = NoFile
    /\ now = 0
    /\ call = NoCall
    /\ chain = NoChain
    /\ formerTasks = {}
    /\ events = 0
    /\ cmds = <<>>
    /\ app \in ReminderApps
    /\ LET s == View(NewModel(app, db, now))
       IN  /\ layout = s.layout
           /\ ui = [f \in DOMAIN ZeroModel |-> s[f]]

\* The clock advances by a tick.
RmTick ==
    /\ now < MaxTicks
    /\ now' = now + 1
    /\ call' = NoCall
    /\ UNCHANGED <<gwVars, chain, formerTasks, uiVars>>

\* A reminderMsg is delivered: Update, then View.
RmReminderMsg ==
    LET s == View(UpdateReminder(Bundle, now))
    IN  /\ ui' = [f \in DOMAIN ui |-> s[f]]
        /\ layout' = s.layout
        /\ call' = s.call
        /\ UNCHANGED <<gwVars, now, chain, formerTasks, events, cmds>>

\* Most ticks the clock advances between two successive reads of one step.
MaxDrift == 1

\* The readings up to MaxDrift ticks after reading t.
Later(t) == {u \in t..(t + MaxDrift) : u <= MaxTicks}

\* A task item is built for task j of list i: IsOverdue reads the clock, then
\* IsDueSoon reads it, then the IsOverdue inside IsDueSoon reads it.
RmTaskItem ==
    \E i \in 1..Len(app.lists) :
      \E j \in 1..Len(app.lists[i].tasks) :
        \E t1 \in Later(now) :
          \E t2 \in Later(t1) :
            \E t3 \in Later(t2) :
              /\ now' = t3
              /\ call' = [op |-> "taskItem", list |-> i, task |-> j,
                          overdue |-> IsOverdue(app.lists[i].tasks[j], t1),
                          dueSoon |-> IsDueSoon(app.lists[i].tasks[j], t2, t3),
                          read |-> <<t1, t2, t3>>]
              /\ UNCHANGED <<gwVars, chain, formerTasks, uiVars>>

NextReminder ==
    \/ RmTick
    \/ RmReminderMsg
    \/ RmTaskItem

SpecReminder == InitReminder /\ [][NextReminder]_vars

(***************************************************************************)
(* SpecMigration: start-ups through NewWithMigration, with changes made in  *)
(* the store between them.  Here db has a third table, settings (key to     *)
(* value), and jsonFile is the legacy file ~/.lazytodo/lazytodo.json        *)
(* together with the backups made of it:                                    *)
(*   [exists, valid, lists, settings, backups]                              *)
(* valid says whether the content parses as JSON; lists and settings are    *)
(* what it parses to; backups is the set of [stamp, lists] renamed files.   *)
(***************************************************************************)
\* Most imports in one behaviour.
MaxImports == 2

\* fmt.Sprintf("%d", n) for n >= 0.
RECURSIVE Itoa(_)
Itoa(n) == IF n < 10 THEN <<DigitChar(n)>> ELSE Itoa(n \div 10) \o <<DigitChar(n % 10)>>

\* fmt.Sprintf("%t", b)
BoolText(b) == IF b THEN "true" ELSE "false"

SettingKeys == {"reminder_minutes", "show_completed", "auto_save"}

SettingValue(settings, key) ==
    CASE key = "reminder_minutes" -> Itoa(settings.ReminderMinutes)
      [] key = "show_completed" -> BoolText(settings.ShowCompleted)
      [] key = "auto_save" -> BoolText(settings.AutoSave)

\* The settings table after createInitialSchema.
DefaultSettingRows == [key \in SettingKeys |-> SettingValue(DefaultSettings, key)]

\* The orders in which ranging over the map of the three settings can visit them.
SettingOrders ==
    {o \in [1..3 -> SettingKeys] : \A i, j \in 1..3 : o[i] = o[j] => i = j}

\* The INSERT OR REPLACE statements of one list: the list, then its tasks.
ListStatements(l) ==
    <<[kind |-> "list",
       row |-> [id |-> l.id, name |-> l.name, description |-> l.description,
                created_at |-> l.created_at]]>>
    \o [j \in 1..Len(l.tasks) |->
           [kind |-> "task",
            row |-> [id |-> l.tasks[j].id, list_id |-> l.id,
                     title |-> l.tasks[j].title,
                     description |-> l.tasks[j].description,
                     completed |-> l.tasks[j].completed,
                     priority |-> l.tasks[j].priority,
                     deadline |-> DeadlineStr(l.tasks[j].deadline),
                     created_at |-> l.tasks[j].created_at]]]

RECURSIVE ListsStatements(_)
ListsStatements(ls) ==
    IF ls = <<>> THEN <<>>
    ELSE ListStatements(ls[1]) \o ListsStatements(SubSeq(ls, 2, Len(ls)))

\* The statements MigrateFromJSON executes for the parsed file, in order.
Statements(file, order) ==
    [i \in 1..3 |-> [kind |-> "setting", key |-> order[i],
                      value |-> SettingValue(file.settings, order[i])]]
    \o ListsStatements(file.lists)

\* One INSERT OR REPLACE.  Replacing a row deletes the row that holds the key
\* and inserts the new one; deleting a todo_lists row deletes the tasks rows
\* that reference it (ON DELETE CASCADE, foreign keys on).
Exec(d, st) ==
    CASE st.kind = "setting" -> [d EXCEPT !.settings[st.key] = st.value]
      [] st.kind = "list" ->
           [d EXCEPT !.lists = Append(SelectSeq(@, LAMBDA r : r.id # st.row.id),
                                      st.row),
                     !.tasks = IF DbHasList(d, st.row.id)
                               THEN SelectSeq(@, LAMBDA r : r.list_id # st.row.id)
                               ELSE @]
      [] st.kind = "task" ->
           [d EXCEPT !.tasks = Append(SelectSeq(@, LAMBDA r : r.id # st.row.id),
                                      st.row)]

\* The store after the first n of the statements.
RECURSIVE ExecFirst(_, _, _)
ExecFirst(d, stmts, n) ==
    IF n = 0 THEN d ELSE Exec(ExecFirst(d, stmts, n - 1), stmts[n])

\* A rollback that leaves the statements already executed in the store.
Rollback_Keep(begun, work) == work

\* tx.Rollback(): the store is as it was when the transaction began.
Rollback(begun, work) == begun

NoFault == [at |-> "none", k |-> 0]

\* Where MigrateFromJSON can meet an external failure on this file: reading
\* it, beginning the transaction, statement k, the commit, the rename.
MigrationFaults(file) ==
    {[at |-> x, k |-> 0] : x \in {"none", "read", "begin", "commit", "rename"}}
    \cup {[at |-> "stmt", k |-> k] : k \in 1..(3 + Len(ListsStatements(file.lists)))}

MigrationResult(d, file, err, imported) ==
    [db |-> d, file |-> file, err |-> err, imported |-> imported]

\* MigrateFromJSON on store d and legacy file file when the clock reads clock.
MigrateFromJSON(d, file, clock, fault, order) ==
    IF ~file.exists THEN MigrationResult(d, file, FALSE, FALSE)
    ELSE IF fault.at = "read" \/ ~file.valid \/ fault.at = "begin"
    THEN MigrationResult(d, file, TRUE, FALSE)
    ELSE
      LET stmts == Statements(file, order)
      IN  IF fault.at = "stmt"
          THEN MigrationResult(Rollback(d, ExecFirst(d, stmts, fault.k - 1)),
                               file, TRUE, FALSE)
          ELSE IF fault.at = "commit"
          THEN MigrationResult(Rollback(d, ExecFirst(d, stmts, Len(stmts))),
                               file, TRUE, FALSE)
          ELSE
            LET d2 == ExecFirst(d, stmts, Len(stmts))
                renamed ==
                    [file EXCEPT !.exists = FALSE, !.valid = FALSE,
                                 !.lists = <<>>,
                                 !.settings = DefaultSettings,
                                 !.backups =
                                    {b \in @ : b.stamp # clock}
                                    \cup {[stamp |-> clock, lists |-> file.lists]}]
            IN  IF fault.at = "rename"
                THEN MigrationResult(d2, file, FALSE, TRUE)
                ELSE MigrationResult(d2, renamed, FALSE, TRUE)

\* What the legacy file holds: up to two lists created at clock readings 0
\* and 1 by the file gateway, the first with up to two tasks.
LegacyTasks ==
    {<<>>} \cup
    {<<[NewTask(10, [title |-> TextA, description |-> <<>>, priority |-> Medium,
                     deadline |-> dl]) EXCEPT !.completed = c]
         @@ [created_at |-> 0]>> : dl \in {NoDeadline, <<Time1>>}, c \in BOOLEAN}

LegacyLists ==
    LET first(ts) == [NewList(0, [name |-> TextA, description |-> <<>>])
                        EXCEPT !.tasks = ts] @@ [created_at |-> 0]
        second == NewList(1, [name |-> TextB, description |-> <<>>])
                    @@ [created_at |-> 1]
    IN  {<<>>} \cup {<<first(ts)>> : ts \in LegacyTasks}
        \cup {<<first(ts), second>> : ts \in LegacyTasks}

LegacyFiles ==
    {[exists |-> FALSE, valid |-> FALSE, lists |-> <<>>,
      settings |-> DefaultSettings, backups |-> {}]}
    \cup {[exists |-> TRUE, valid |-> FALSE, lists |-> <<>>,
           settings |-> DefaultSettings, backups |-> {}]}
    \cup {[exists |-> TRUE, valid |-> TRUE, lists |-> ls,
           settings |-> [DefaultSettings EXCEPT !.ReminderMinutes = m],
           backups |-> {}] : ls \in LegacyLists, m \in {60, 5}}

InitMigration ==
    /\ backend = "db"
    /\ app = EmptyApp
    /\ db = EmptyDb @@ [settings |-> DefaultSettingRows]
    /\ jsonFile \in LegacyFiles
    /\ now = 0
    /\ call = NoCall
    /\ chain = NoChain
    /\ formerTasks = {}
    /\ layout = NewLayout
    /\ ui = ZeroModel
    /\ events = 0
    /\ cmds = <<>>

\* A start-up: NewWithMigration runs MigrateFromJSON on the opened store.
\* events counts the imports made.
MgStartUp ==
    /\ events < MaxImports
    /\ \E fault \in MigrationFaults(jsonFile), order \in SettingOrders :
         LET r == MigrateFromJSON(db, jsonFile, now, fault, order)
         IN  /\ db' = r.db
             /\ jsonFile' = r.file
             /\ call' = [op |-> "MigrateFromJSON", err |-> r.err,
                         imported |-> r.imported, fault |-> fault]
             /\ events' = IF r.imported THEN events + 1 ELSE events
    /\ UNCHANGED <<backend, app, now, chain, formerTasks, layout, ui, cmds>>

\* A session changes the store: it renames a list or deletes one.
MgChange ==
    /\ \E r \in 1..Len(db.lists) :
         \/ db' = DbUpdateTodoList(app, db, db.lists[r].id,
                      [name |-> TextD, description |-> <<>>], "none").db
         \/ db' = DbDeleteTodoList(app, db, db.lists[r].id, "none").db
    /\ call' = [op |-> "change", err |-> FALSE, imported |-> FALSE,
                fault |-> NoFault]
    /\ UNCHANGED <<backend, app, jsonFile, now, chain, formerTasks, uiVars>>

\* The clock advances.
MgTick ==
    /\ now < MaxClock
    /\ now' = now + 1
    /\ call' = NoCall
    /\ UNCHANGED <<gwVars, chain, formerTasks, uiVars>>

NextMigration ==
    \/ MgStartUp
    \/ MgChange
    \/ MgTick

SpecMigration == InitMigration /\ [][NextMigration]_vars

(***************************************************************************)
(* SpecPersist: the controller with the Save commands its handlers return.  *)
(* Update returns m.saveData() after a gateway call that reported no error; *)
(* the runtime runs each command on a goroutine of its own and sends the    *)
(* message the command returns (nil, or an errorMsg) back to the event      *)
(* loop, which goes on with other events in the meantime.                   *)
(***************************************************************************)
\* Most Save commands in flight at once.
MaxCmds == 2

\* A Save command the runtime has not started: data is what Save has read of
\* the snapshot, raced whether the snapshot changed while Save was reading it.
QueuedSave == [running |-> FALSE, reads |-> FALSE, data |-> <<>>, raced |-> FALSE]

\* Whether Update, having left Model s, returns m.saveData().
ReturnsSave(s) == s.call.op # "none" /\ ~s.call.err

\* A DatabaseStorage.Save that marshals the snapshot, as Storage.Save does.
SaveReads_Always(b) == TRUE

\* Storage.Save marshals the snapshot it is given; DatabaseStorage.Save begins
\* and commits a transaction and does not look at it.
SaveReads(b) == b = "file"

\* The commands after an event that left the snapshot changed or not.
AfterUpdate(c, changed) ==
    [k \in 1..Len(c) |->
        IF c[k].running /\ c[k].reads /\ changed
        THEN [c[k] EXCEPT !.raced = TRUE] ELSE c[k]]

\* What a finished Storage.Save has written: the snapshot it began to read, or,
\* when the snapshot changed under it, possibly what it is now.
SavedData(c) == IF c.raced THEN {c.data, app.lists} ELSE {c.data}

SaveCall(failed) == [NoCall EXCEPT !.op = "Save", !.err = failed]

\* Update for an errorMsg.
UpdateError(s, clock) == showMessage(s, "Failed to save", clock)

PersistKeys ==
    {Key("enter"), Key("esc"), Key("ctrl+s"), Key("ctrl+m"),
     RuneKey("e"), RuneKey("d"), RuneKey(" ")}

\* NewModel takes its gateway from NewWithMigration, which returns the
\* DatabaseStorage or an error: the controller never runs on the file gateway.
InitPersist ==
    /\ backend = "db"
    /\ app = SeedStore.app
    /\ db = SeedStore.db
    /\ jsonFile = NoFile
    /\ now = 1
    /\ call = NoCall
    /\ chain = NoChain
    /\ formerTasks = {}
    /\ events = 0
    /\ cmds = <<>>
    /\ LET s == View(NewModel(app, db, now))
       IN  /\ layout = s.layout
           /\ ui = [f \in DOMAIN ZeroModel |-> s[f]]

\* The commands in flight once Update has left Model s.
Batch(s) ==
    LET c == AfterUpdate(cmds, s.app # app)
    IN  IF ReturnsSave(s) THEN Append(c, QueuedSave) ELSE c

CommitBatch(s) == CommitCmds(s, Batch(s))

\* One KeyMsg through Update and View; the command Update returns is queued.
PsKey ==
    \E msg \in PersistKeys, cur \in FocusedWindows(layout) :
      /\ Len(cmds) < MaxCmds
      /\ Admitted(Bundle, msg, Route(Bundle, msg, cur))
      /\ \E fault \in FaultsOf(msg) :
           CommitBatch(View(UpdateKey(Bundle, msg, now, fault, cur)))

\* The runtime starts a command: Save begins.
PsSaveBegin ==
    \E k \in 1..Len(cmds) :
      /\ ~cmds[k].running
      /\ cmds' = [cmds EXCEPT ![k] =
                     [running |-> TRUE, reads |-> SaveReads(backend),
                      data |-> IF SaveReads(backend) THEN app.lists ELSE <<>>,
                      raced |-> FALSE]]
      /\ call' = NoCall
      /\ UNCHANGED <<gwVars, now, chain, formerTasks, layout, ui, events>>

\* Save returns nil, and so does the command: no message reaches Update.
PsSaveDone ==
    \E k \in 1..Len(cmds) :
      /\ cmds[k].running
      /\ cmds' = RemoveAt(cmds, k)
      /\ call' = SaveCall(FALSE)
      /\ IF cmds[k].reads
         THEN \E d \in SavedData(cmds[k]) :
                jsonFile' = [lists |-> d, exists |-> TRUE]
         ELSE UNCHANGED jsonFile
      /\ UNCHANGED <<backend, app, db, now, chain, formerTasks, layout, ui, events>>

\* Save returns an error: the command returns an errorMsg, which Update handles.
PsSaveFailed ==
    \E k \in 1..Len(cmds) :
      /\ cmds[k].running
      /\ CommitCmds(View([UpdateError(Bundle, now) EXCEPT !.call = SaveCall(TRUE)]),
                    RemoveAt(cmds, k))

NextPersist ==
    \/ PsKey
    \/ PsSaveBegin
    \/ PsSaveDone
    \/ PsSaveFailed

SpecPersist == InitPersist /\ [][NextPersist]_vars

(***************************************************************************)
(* SpecSchema: NewDatabase run again and again on one store, from working   *)
(* directories with and without a migrations directory.  Here db is the     *)
(* schema side of the store: ledger, the versions schema_migrations holds,  *)
(* and applied, how many times the schema of each version was executed.     *)
(***************************************************************************)
\* Highest schema version a migrations directory offers.
MaxVersion == 2

\* Most runs of NewDatabase on the store.
MaxRuns == 3

Versions == 1..MaxVersion

\* The store before its first run.
NewStore == [ledger |-> {}, applied |-> [v \in Versions |-> 0]]

\* What os.ReadDir("migrations") can find: no directory, or the versions that
\* have an .up.sql file in it.
NoDir == {0}

\* The external failures of a run: none, or db.Exec failing on the schema of
\* version k or on the statement that records it.
SchemaFaults ==
    {NoFault} \cup {[at |-> x, k |-> v] : x \in {"apply", "record"}, v \in Versions}

SchemaResult(d, err) == [db |-> d, err |-> err]

\* db.Exec of the schema of version v, then the plain INSERT of v into
\* schema_migrations, whose primary key is version.
ApplyAndRecord(d, v, fault) ==
    IF fault = [at |-> "apply", k |-> v] THEN SchemaResult(d, TRUE)
    ELSE LET d1 == [d EXCEPT !.applied[v] = @ + 1]
         IN  IF fault = [at |-> "record", k |-> v] \/ v \in d.ledger
             THEN SchemaResult(d1, TRUE)
             ELSE SchemaResult([d1 EXCEPT !.ledger = @ \cup {v}], FALSE)

\* createInitialSchema: every statement of the schema is CREATE ... IF NOT
\* EXISTS or INSERT OR IGNORE, so executing it again succeeds; then version 1
\* is recorded.
createInitialSchema(d, fault) == ApplyAndRecord(d, 1, fault)

\* The loop of runMigrations over the entries from version v on, in the order
\* of their file names; applied is the ledger read before the loop.
RECURSIVE ApplyFrom(_, _, _, _, _)
ApplyFrom(d, dir, applied, v, fault) ==
    IF v > MaxVersion THEN SchemaResult(d, FALSE)
    ELSE IF v \notin dir \/ v \in applied THEN ApplyFrom(d, dir, applied, v + 1, fault)
    ELSE LET r == ApplyAndRecord(d, v, fault)
         IN  IF r.err THEN r ELSE ApplyFrom(r.db, dir, applied, v + 1, fault)

runMigrations(d, dir, fault) ==
    IF dir = NoDir THEN createInitialSchema(d, fault)
    ELSE ApplyFrom(d, dir, d.ledger, 1, fault)

SchemaCall(dir, fault, r) ==
    [op |-> "NewDatabase", dir |-> dir, fault |-> fault, err |-> r.err]

InitSchema ==
    /\ backend = "db"
    /\ app = EmptyApp
    /\ db = NewStore
    /\ jsonFile = NoFile
    /\ now = 0
    /\ call = NoCall
    /\ chain = NoChain
    /\ formerTasks = {}
    /\ layout = NewLayout
    /\ ui = ZeroModel
    /\ events = 0
    /\ cmds = <<>>

\* NewDatabase from a working directory without a migrations directory.
ScOpenWithoutDir ==
    /\ events < MaxRuns
    /\ \E fault \in SchemaFaults :
         LET r == runMigrations(db, NoDir, fault)
         IN  /\ db' = r.db
             /\ call' = SchemaCall(NoDir, fault, r)
    /\ events' = events + 1
    /\ UNCHANGED <<backend, app, jsonFile, now, chain, formerTasks, layout, ui, cmds>>

\* NewDatabase from a working directory that has one.
ScOpenWithDir ==
    /\ events < MaxRuns
    /\ \E dir \in SUBSET Versions, fault \in SchemaFaults :
         LET r == runMigrations(db, dir, fault)
         IN  /\ db' = r.db
             /\ call' = SchemaCall(dir, fault, r)
    /\ events' = events + 1
    /\ UNCHANGED <<backend, app, jsonFile, now, chain, formerTasks, layout, ui, cmds>>

NextSchema ==
    \/ ScOpenWithoutDir
    \/ ScOpenWithDir

SpecSchema == InitSchema /\ [][NextSchema]_vars

(***************************************************************************)
(* Claims about the gateways (checked under SpecGateway).                  *)
(***************************************************************************)

\* C4: for the database gateway the snapshot and the store agree after every
\* mutating call, successful or failed: same list IDs in the same order, same
\* task IDs per list, same name/title, description, priority, completed flag
\* and deadline.
C4_SnapshotAgreesWithStore == backend = "db" => Agrees(app, db)

\* C4 witness: the store holds a list with a task that has a deadline, and the
\* last call was a task update that returned an error after an earlier delete
\* of a list with tasks.
C4_Witness ==
    /\ backend = "db"
    /\ call.op = "UpdateTask" /\ call.err
    /\ formerTasks # {}
    /\ \E r \in 1..Len(db.tasks) : db.tasks[r].deadline.Valid

\* C5: a call given an unknown list ID or task ID returns an error and leaves
\* the snapshot and the store unchanged, for both gateways.
C5_UnknownIdReturnsError ==
    [][UnknownTarget(call', app, db)
          => call'.err /\ app' = app /\ db' = db /\ jsonFile' = jsonFile]_vars

\* C6: the IDs assigned in one run are pairwise distinct, so no two lists share
\* an ID and no list holds two tasks with the same ID.
C6_IdsDistinct ==
    /\ \A i, k \in 1..Len(app.lists) : i # k => app.lists[i].id # app.lists[k].id
    /\ \A i \in 1..Len(app.lists) :
         \A j, k \in 1..Len(app.lists[i].tasks) :
            j # k => app.lists[i].tasks[j].id # app.lists[i].tasks[k].id

\* C7: a successful DeleteList(L) removes L and its tasks from the snapshot and
\* the store and leaves every other list as it was, and every later UpdateTask,
\* ToggleTask or DeleteTask naming a task formerly in L returns an error.
C7_DeleteListCascades ==
    [][/\ (call'.op = "DeleteList" /\ ~call'.err) =>
            /\ ListIndex(app', call'.list) = 0
            /\ ~DbHasList(db', call'.list)
            /\ \A r \in 1..Len(db'.tasks) : db'.tasks[r].list_id # call'.list
            /\ SelectSeq(app.lists, LAMBDA l : l.id # call'.list) = app'.lists
       /\ (call'.op \in TaskOps /\ call'.task \in formerTasks) => call'.err]_vars

\* C8: two successive ToggleTask calls on one task return its completed flag to
\* the original value, in the snapshot and in the store, and neither call
\* changes the flag of any other task.
C8_ToggleTwiceRestores ==
    /\ chain.n = 2 =>
         /\ Flags(app) = Flags(chain.app)
         /\ DbFlags(db) = DbFlags(chain.db)
         /\ jsonFile = chain.file
    /\ chain.n = 1 =>
         LET p == IF backend = "db"
                  THEN FindTaskAnyList(chain.app, chain.list, chain.task)
                  ELSE FindTaskFirstList(chain.app, chain.list, chain.task)
         IN  /\ \A i \in 1..Len(app.lists) : \A j \in 1..Len(app.lists[i].tasks) :
                  <<i, j>> # p => Flags(app)[i][j] = Flags(chain.app)[i][j]
             /\ Flags(app)[p[1]][p[2]] = ~Flags(chain.app)[p[1]][p[2]]
             /\ \A r \in 1..Len(db.tasks) :
                  ~(db.tasks[r].id = chain.task /\ db.tasks[r].list_id = chain.list)
                      => DbFlags(db)[r] = DbFlags(chain.db)[r]

\* C8 witness: the second of two successive toggles has been applied to a task
\* of a list that holds another task.
C8_Witness ==
    /\ chain.n = 2
    /\ call.op = "ToggleTask" /\ ~call.err
    /\ \E i \in 1..Len(app.lists) :
         app.lists[i].id = chain.list /\ Len(app.lists[i].tasks) >= 2

(***************************************************************************)
(* Claims about the layout manager (checked under SpecLayout).             *)
(***************************************************************************)
FocusedCount(l) == Cardinality({id \in DOMAIN l.windows : l.windows[id].Focused})

\* C10: starting from at most one focused panel, after any sequence of
\* SetFocus, NextFocus, PrevFocus, SetWindowVisible and SetScreenSize calls at
\* most one panel is focused.
C10_AtMostOneFocused == FocusedCount(layout) <= 1

\* C10 witness: focus has moved off the panel at currentFocus 0 onto another
\* panel of the ring while the overlay panels exist and one of them is visible.
C10_Witness ==
    /\ FocusedCount(layout) = 1
    /\ layout.currentFocus # 0
    /\ HasWindow(layout, focusOrder[layout.currentFocus + 1])
    /\ layout.windows[focusOrder[layout.currentFocus + 1]].Focused
    /\ HasWindow(layout, HelpWindow) /\ layout.windows[HelpWindow].Visible
    /\ layout.screenWidth > 0

\* The panels whose focus flag is set.
FocusedSet(l) == {id \in DOMAIN l.windows : l.windows[id].Focused}

\* C11: SetFocus on a panel that exists and is hidden changes no focus flag,
\* so the panel focused before the call is still the focused one after it.
C11_SetFocusHiddenIsNoOp ==
    [][(/\ call'.op = "SetFocus"
        /\ HasWindow(layout, call'.window)
        /\ ~layout.windows[call'.window].Visible)
       => FocusedSet(layout') = FocusedSet(layout)]_vars

\* The panel the ring reaches from position currentFocus going delta at a time:
\* the first of the next three positions whose panel is visible, none if no
\* panel of the ring is visible.
RingStep(l, delta) ==
    LET at(k) == focusOrder[((l.currentFocus + k * delta) % Len(focusOrder)) + 1]
        ok(k) == HasWindow(l, at(k)) /\ l.windows[at(k)].Visible
        hits == {k \in 1..Len(focusOrder) : ok(k)}
    IN  IF hits = {} THEN {}
        ELSE {at(CHOOSE k \in hits : \A j \in hits : k <= j)}

\* C12: with Main, Sidebar and Status visible and Main focused, one, two and
\* three NextFocus calls in a row leave the focus on Sidebar, Status and Main;
\* every NextFocus (PrevFocus) call leaves the focus on the next (previous)
\* visible panel of the ring Main, Sidebar, Status, on none if none is visible;
\* and after SetFocus, NextFocus or PrevFocus a focused panel of the ring is
\* the one at the ring position.
C12_FocusRing ==
    [][/\ chain'.n = 1 => FocusedSet(layout') = {SidebarWindow}
       /\ chain'.n = 2 => FocusedSet(layout') = {StatusWindow}
       /\ chain'.n = 3 => FocusedSet(layout') = {MainWindow}
       /\ call'.op = "NextFocus" => FocusedSet(layout') = RingStep(layout, 1)
       /\ call'.op = "PrevFocus" =>
            FocusedSet(layout') = RingStep(layout, Len(focusOrder) - 1)
       /\ call'.op \in {"SetFocus", "NextFocus", "PrevFocus"} =>
            \A k \in 1..Len(focusOrder) :
              focusOrder[k] \in FocusedSet(layout') => layout'.currentFocus = k - 1
      ]_vars

\* C12 witness: three NextFocus calls in a row from Main have come back to
\* Main while one of the overlays is visible.
C12_Witness ==
    /\ chain.n = 3
    /\ call.op = "NextFocus"
    /\ FocusedSet(layout) = {MainWindow}
    /\ HasWindow(layout, FormWindow) /\ layout.windows[FormWindow].Visible

(***************************************************************************)
(* Claims about the panel geometry (checked under SpecScreen).             *)
(***************************************************************************)
\* The layout has been computed for the size the terminal reported.
Sized == call.op = "SetScreenSize"

Pos(id) == layout.windows[id].Position

AllPositive == \A id \in WindowIDs : Pos(id).Width > 0 /\ Pos(id).Height > 0

\* C13: for a screen of at least 80 columns and 24 rows, the Sidebar is 35 to
\* 50 columns wide, Main takes the remaining columns, Status is 2 or 3 rows
\* high, Main and Status together fill the rows, and every panel, the Form
\* and Help overlays included, has a positive width and height.
C13_GeometryAtSupportedSize ==
    (Sized /\ ui.width >= 80 /\ ui.height >= 24) =>
        /\ Pos(SidebarWindow).Width \in 35..50
        /\ Pos(MainWindow).Width = ui.width - Pos(SidebarWindow).Width
        /\ Pos(StatusWindow).Height \in {2, 3}
        /\ Pos(MainWindow).Height + Pos(StatusWindow).Height = ui.height
        /\ AllPositive

\* C13 witness: the layout computed for 80 columns by 24 rows, where the
\* Sidebar gets its minimum width.
C13_Witness ==
    /\ Sized
    /\ ui.width = 80 /\ ui.height = 24
    /\ Pos(SidebarWindow).Width = 35
    /\ Pos(MainWindow).Width = 45

\* C14: for a screen of positive width and height smaller than 80 by 24,
\* every panel has a positive width and a positive height.
C14_PositiveBelowMinimum ==
    (Sized /\ (ui.width < 80 \/ ui.height < 24)) => AllPositive

(***************************************************************************)
(* Claims about reminders and due dates (checked under SpecReminder).      *)
(***************************************************************************)
\* Task t is incomplete, has a deadline, and the time from clock to the
\* deadline is positive and at most window.
DueWithin(t, clock, window) ==
    /\ ~t.completed
    /\ t.deadline # NoDeadline
    /\ ReadingAt(t.deadline[1]) - clock > 0
    /\ ReadingAt(t.deadline[1]) - clock <= window

\* The first <<list, task>> in list order then task order that is due within
\* the window, <<0, 0>> if none is.
FirstDue(a, clock, window) ==
    LET due == {p \in UNION {{<<i, j>> : j \in 1..Len(a.lists[i].tasks)} :
                                i \in 1..Len(a.lists)} :
                  DueWithin(a.lists[p[1]].tasks[p[2]], clock, window)}
    IN  IF due = {} THEN <<0, 0>>
        ELSE CHOOSE p \in due :
               \A q \in due : p[1] < q[1] \/ (p[1] = q[1] /\ p[2] <= q[2])

\* C15: a reminder scan that is not throttled shows at most one message, for
\* the first task in list order then task order that is incomplete, has a
\* deadline and is due in more than zero and at most the reminder window; when
\* no task qualifies it shows none and the message stays as it was.
C15_ScanShowsFirstDue ==
    [][(call'.op = "reminderMsg" /\ call'.ran) =>
        LET first == FirstDue(app, now, app.settings.ReminderMinutes * Minute)
        IN  /\ call'.hit = first
            /\ call'.shown <= 1
            /\ first = <<0, 0>> =>
                 /\ call'.shown = 0
                 /\ ui'.message = ui.message
                 /\ ui'.messageTime = ui.messageTime
            /\ first # <<0, 0>> =>
                 /\ call'.shown = 1
                 /\ call'.title = app.lists[first[1]].tasks[first[2]].title
                 /\ ui'.message = "Task is due"
                 /\ ui'.messageTime = now
       ]_vars

\* C15 witness: a scan has shown the message for the second task because the
\* first, incomplete and with a deadline, is not due within the window.
C15_Witness ==
    /\ call.op = "reminderMsg"
    /\ call.ran
    /\ call.shown = 1
    /\ call.hit[2] = 2
    /\ LET t == app.lists[call.hit[1]].tasks[1]
       IN  ~t.completed /\ t.deadline # NoDeadline
    /\ ui.message = "Task is due"

\* C16: a reminderMsg less than a minute after the last executed scan (or
\* after start-up) runs no scan, shows no message and leaves the last-scan
\* time as it was; a scan that runs is at least a minute after the last one
\* and becomes the last one.
C16_ScanThrottled ==
    [][call'.op = "reminderMsg" =>
        /\ now - ui.lastReminderCheck < Minute =>
             /\ ~call'.ran
             /\ call'.shown = 0
             /\ ui' = ui
        /\ call'.ran =>
             /\ now - ui.lastReminderCheck >= Minute
             /\ ui'.lastReminderCheck = now
       ]_vars

\* C16 witness: a reminderMsg has been suppressed less than a minute after a
\* scan that ran.
C16_Witness ==
    /\ call.op = "reminderMsg"
    /\ ~call.ran
    /\ ui.lastReminderCheck > 0
    /\ now - ui.lastReminderCheck < Minute
    /\ now > ui.lastReminderCheck

\* C17: a reminder scan that runs while an incomplete task is overdue (its
\* deadline has passed) shows a message.
C17_OverdueNotified ==
    [][(/\ call'.op = "reminderMsg"
        /\ call'.ran
        /\ \E i \in 1..Len(app.lists) : \E j \in 1..Len(app.lists[i].tasks) :
             LET t == app.lists[i].tasks[j]
             IN  ~t.completed /\ t.deadline # NoDeadline
                 /\ ReadingAt(t.deadline[1]) < now)
       => call'.shown = 1]_vars

\* C18: the overdue and dueSoon flags computed for a task, the clock moving
\* forward between the reads, are never both true, and both are false when
\* the task is completed or has no deadline.
C18_OverdueExcludesDueSoon ==
    call.op = "taskItem" =>
        LET t == app.lists[call.list].tasks[call.task]
        IN  /\ ~(call.overdue /\ call.dueSoon)
            /\ (t.completed \/ t.deadline = NoDeadline) =>
                 (~call.overdue /\ ~call.dueSoon)

\* C18 witness: the deadline of an incomplete task passed between the read of
\* IsOverdue and the reads of IsDueSoon, so that neither flag is set.
C18_Witness ==
    /\ call.op = "taskItem"
    /\ LET t == app.lists[call.list].tasks[call.task]
       IN  /\ ~t.completed /\ t.deadline # NoDeadline
           /\ call.read[1] <= ReadingAt(t.deadline[1])
           /\ call.read[3] > ReadingAt(t.deadline[1])
    /\ ~call.overdue
    /\ ~call.dueSoon

(***************************************************************************)
(* Claims about the legacy import (checked under SpecMigration).           *)
(***************************************************************************)
\* C19: when MigrateFromJSON returns an error, whichever step failed up to
\* and including the commit, the legacy file is still there under its name
\* with the same content and the store is as it was before the call, so
\* nothing of the file has been imported.
C19_FailedImportLeavesAll ==
    [][(call'.op = "MigrateFromJSON" /\ call'.err) =>
        /\ jsonFile' = jsonFile
        /\ jsonFile'.exists
        /\ db' = db
        /\ ~call'.imported
       ]_vars

\* C19 witness: an import of a file that holds a list with a task has failed
\* at the commit, or at a statement after the list was inserted, on a store
\* that holds none of the file's lists.
C19_Witness ==
    /\ call.op = "MigrateFromJSON"
    /\ call.err
    /\ call.fault.at = "commit" \/ (call.fault.at = "stmt" /\ call.fault.k > 4)
    /\ jsonFile.valid
    /\ Len(jsonFile.lists) > 0
    /\ Len(jsonFile.lists[1].tasks) > 0
    /\ db.lists = <<>>

\* C20: after MigrateFromJSON has imported the legacy file and returned
\* success, the file no longer exists under its name and a backup holds its
\* content, so that no later start-up imports again.
C20_ImportedOnce ==
    [][(call'.op = "MigrateFromJSON" /\ ~call'.err /\ call'.imported) =>
        /\ ~jsonFile'.exists
        /\ \E b \in jsonFile'.backups : b.lists = jsonFile.lists
        /\ events' <= 1
       ]_vars

(***************************************************************************)
(* Claims about the controller (checked under Spec).                       *)
(***************************************************************************)
FormStates == {CreateListView, EditListView, CreateTaskView, EditTaskView}

TaskFormStates == {CreateTaskView, EditTaskView}

\* The calls the controller makes that report failure by an error value.
ErrorOps ==
    {"UpdateList", "DeleteList", "CreateTask", "UpdateTask", "ToggleTask", "DeleteTask"}

Buffers(u) == <<u.titleInput, u.descriptionInput, u.deadlineInput>>

\* Deadline texts that name no date and time in the form YYYY-MM-DD HH:MM.
UnparseableTexts == {TextA, DeadlineBadDay}

\* C1: when a gateway call made by the controller returns an error, the
\* controller shows an error-typed message and neither the view state, nor the
\* focused panel, nor the current list ID changes.
C1_GatewayErrorKeepsView ==
    [][(call'.op \in ErrorOps /\ call'.err) =>
          /\ ui'.messageType = "error"
          /\ ui'.state = ui.state
          /\ FocusedPanels(layout') = FocusedPanels(layout)
          /\ ui'.currentListID = ui.currentListID]_vars

\* C1 witness: the edit-task form is still open, over the same focus, after
\* UpdateTask returned an error.
C1_Witness ==
    /\ call.op = "UpdateTask" /\ call.err
    /\ ui.state = EditTaskView
    /\ ui.messageType = "error"
    /\ Visible(layout, FormWindow)

\* C2: Enter in a form whose title input is empty makes no gateway call, shows
\* a warning, and leaves the view state, the form buffers and the snapshot as
\* they were.
C2_EmptyTitleRejected ==
    [][(ui.state \in FormStates /\ ui.titleInput = <<>> /\ KeyStep(EnterKey)) =>
          /\ call' = NoCall
          /\ ui'.messageType = "warning"
          /\ ui'.state = ui.state
          /\ Buffers(ui') = Buffers(ui)
          /\ app' = app
          /\ db' = db]_vars

\* C2 witness: the edit-list form, its title cleared, after Enter was refused.
C2_Witness ==
    /\ ui.state = EditListView
    /\ ui.titleInput = <<>>
    /\ ui.message = "Title is required"
    /\ ui.messageType = "warning"
    /\ call = NoCall
    /\ Len(app.lists) > 0

\* C3: Enter in a task form with a title and a deadline text that does not
\* parse shows a warning, makes no gateway call and no transition; the text is
\* never turned into some nearby valid date.
C3_BadDeadlineRejected ==
    [][(/\ ui.state \in TaskFormStates
        /\ ui.titleInput # <<>>
        /\ ui.deadlineInput \in UnparseableTexts
        /\ KeyStep(EnterKey)) =>
          /\ call' = NoCall
          /\ ui'.messageType = "warning"
          /\ ui'.state = ui.state
          /\ Buffers(ui') = Buffers(ui)
          /\ app' = app
          /\ db' = db]_vars

\* C3 witness: the create-task form holding a title and 30 February, after
\* Enter was refused.
C3_Witness ==
    /\ ui.state = CreateTaskView
    /\ ui.titleInput # <<>>
    /\ ui.deadlineInput = DeadlineBadDay
    /\ ui.message = "Invalid deadline format (use YYYY-MM-DD HH:MM)"
    /\ ui.messageType = "warning"
    /\ call = NoCall

\* C9: after every event and the View that follows it, at most one of the Form
\* and Help overlays is visible.
C9_OneOverlayVisible ==
    ~(Visible(layout, FormWindow) /\ Visible(layout, HelpWindow))

HelpKey == RuneKey("?")

BackKey == Key("esc")

\* C22: from a state in which the Help overlay is hidden, the Help key shows
\* the overlay, gives the Help window the focus and sets the view state to
\* HelpView.
C22_HelpKeyOpensHelp ==
    [][(~Visible(layout, HelpWindow) /\ KeyStep(HelpKey)) =>
          /\ Visible(layout', HelpWindow)
          /\ FocusedPanels(layout') = {HelpWindow}
          /\ ui'.state = HelpView]_vars

\* C23: while the Help overlay is shown and holds the focus, the Back key or
\* the Help key hides it and brings back the view state and the focused window
\* of the state in which it was opened.
C23_ClosingHelpRestores ==
    [][(/\ Visible(layout, HelpWindow)
        /\ FocusedPanels(layout) = {HelpWindow}
        /\ chain.n = 1
        /\ KeyStep(BackKey) \/ KeyStep(HelpKey)) =>
          /\ ~Visible(layout', HelpWindow)
          /\ ui'.state = chain.state
          /\ FocusedPanels(layout') = chain.focus]_vars

\* C24: in TasksView with the Main window focused, the Back key gives the
\* Sidebar the focus and sets the view state to ListsView.
C24_BackLeavesTasksView ==
    [][(/\ ui.state = TasksView
        /\ FocusedPanels(layout) = {MainWindow}
        /\ KeyStep(BackKey)) =>
          /\ FocusedPanels(layout') = {SidebarWindow}
          /\ ui'.state = ListsView]_vars

\* The items the task widget shows for the current list of snapshot a.
ShownTasks(a, listID) ==
    LET i == ListIndex(a, listID)
        shown == SelectSeq(a.lists[i].tasks,
                     LAMBDA t : a.settings.ShowCompleted \/ ~t.completed)
    IN  [j \in 1..Len(shown) |-> taskItem(shown[j])]

\* The deadline a task form holding text d asks for.
FormDeadline(d) == IF d = <<>> THEN NoDeadline ELSE <<ParseDeadline(d).t>>

\* C25: Enter in a task form with a title and an empty or parseable deadline
\* makes one gateway call, UpdateTask on the edited task when editing and
\* CreateTask on the current list otherwise; when the call succeeds the task
\* widget shows the current list of the new snapshot, the view state is
\* TasksView with Main focused, and a creation has appended one incomplete task
\* with the form's title and deadline to the current list and changed nothing
\* else in the snapshot.
C25_TaskFormEnterSaves ==
    [][(/\ ui.state \in TaskFormStates
        /\ ui.titleInput # <<>>
        /\ ui.deadlineInput = <<>> \/ ParseDeadline(ui.deadlineInput).ok
        /\ KeyStep(EnterKey)) =>
          LET i == ListIndex(app, ui.currentListID)
              n == Len(app'.lists[i].tasks)
              t == app'.lists[i].tasks[n]
          IN  /\ call'.op = IF ui.editing THEN "UpdateTask" ELSE "CreateTask"
              /\ call'.list = ui.currentListID
              /\ ui.editing => call'.task = ui.editingTaskID
              /\ ~call'.err =>
                    /\ i # 0
                    /\ ui'.state = TasksView
                    /\ FocusedPanels(layout') = {MainWindow}
                    /\ ui'.tasksList.items = ShownTasks(app', ui.currentListID)
                    /\ ~ui.editing =>
                          /\ n = Len(app.lists[i].tasks) + 1
                          /\ app' = [app EXCEPT !.lists[i].tasks = Append(@, t)]
                          /\ ~t.completed
                          /\ t.title = ui.titleInput
                          /\ t.deadline = FormDeadline(ui.deadlineInput)]_vars

\* C25 witness: the task widget shows two tasks after CreateTask succeeded from
\* the form.
C25_Witness ==
    /\ call.op = "CreateTask" /\ ~call.err
    /\ ui.state = TasksView
    /\ ui.message = "Task created successfully"
    /\ FocusedPanels(layout) = {MainWindow}
    /\ Len(ui.tasksList.items) = 2

ListFormStates == {CreateListView, EditListView}

\* C26: Enter in a list form with a title makes one gateway call, UpdateList on
\* the edited list when editing and CreateList otherwise; unless the call
\* returns an error the sidebar widget then shows the lists of the new
\* snapshot in snapshot order, the view state is ListsView and the Sidebar is
\* focused; a list CreateList made is the last list of the snapshot, after all
\* the lists that were there, and has no tasks.
C26_ListFormEnterSaves ==
    [][(/\ ui.state \in ListFormStates
        /\ ui.titleInput # <<>>
        /\ KeyStep(EnterKey)) =>
          LET n == Len(app'.lists)
          IN  /\ call'.op = IF ui.editing THEN "UpdateList" ELSE "CreateList"
              /\ ui.editing => call'.list = ui.currentListID
              /\ ~call'.err =>
                    /\ ui'.todoListsList.items =
                          [i \in 1..n |-> listItem(app'.lists[i])]
                    /\ ui'.state = ListsView
                    /\ FocusedPanels(layout') = {SidebarWindow}
              /\ (~ui.editing /\ call'.id # NoID) =>
                    /\ n = Len(app.lists) + 1
                    /\ app' = [app EXCEPT !.lists = Append(@, app'.lists[n])]
                    /\ app'.lists[n].id = call'.id
                    /\ app'.lists[n].name = ui.titleInput
                    /\ app'.lists[n].tasks = <<>>]_vars

\* C26 witness: the sidebar shows two lists after CreateList made the second.
C26_Witness ==
    /\ call.op = "CreateList" /\ call.id # NoID
    /\ ui.state = ListsView
    /\ ui.message = "List created successfully"
    /\ FocusedPanels(layout) = {SidebarWindow}
    /\ Len(ui.todoListsList.items) = 2
    /\ app.lists[2].tasks = <<>>

\* C27: the Back key in a form makes no gateway call, leaves the snapshot and
\* the store as they were, and ends with the Sidebar focused in ListsView for a
\* list form and with Main focused in TasksView for a task form, whichever
\* window had the focus when the key arrived.
C27_CancelFormRestoresFocus ==
    [][(ui.state \in FormStates /\ KeyStep(BackKey)) =>
          /\ call' = NoCall
          /\ app' = app
          /\ db' = db
          /\ ui.state \in ListFormStates =>
                ui'.state = ListsView /\ FocusedPanels(layout') = {SidebarWindow}
          /\ ui.state \in TaskFormStates =>
                ui'.state = TasksView /\ FocusedPanels(layout') = {MainWindow}]_vars

\* C27 witness: on the empty store, a create-list form with a typed title was
\* cancelled.
C27_Witness ==
    /\ ui.state = ListsView
    /\ FocusedPanels(layout) = {SidebarWindow}
    /\ ~Visible(layout, FormWindow)
    /\ ui.titleInput = TextA
    /\ ~ui.editing
    /\ ui.message = ""
    /\ app.lists = <<>>
    /\ call = NoCall

\* Every list of snapshot a has a name and every task a title.
AllTitled(a) ==
    \A i \in 1..Len(a.lists) :
      /\ a.lists[i].name # <<>>
      /\ \A j \in 1..Len(a.lists[i].tasks) : a.lists[i].tasks[j].title # <<>>

\* C30: started on a snapshot in which every list has a name and every task a
\* title, the controller keeps it so after every event.
C30_TitlesStayNonEmpty == AllTitled(app)

\* C30 witness: the form has renamed a list of a snapshot that holds a task.
C30_Witness ==
    /\ call.op = "UpdateList" /\ ~call.err
    /\ ui.message = "List updated successfully"
    /\ Len(app.lists) = 1
    /\ Len(app.lists[1].tasks) = 1
    /\ AllTitled(app)

(***************************************************************************)
(* Claims about the Save commands (checked under SpecPersist).              *)
(***************************************************************************)
\* Some Save command has been started and has not returned.
SaveRunning == \E k \in 1..Len(cmds) : cmds[k].running

\* C21: an Update that changes the snapshot while a Save command returned
\* after an earlier mutation is running does so with no Save reading the
\* snapshot.  The controller runs on the gateway NewModel constructs, whose
\* Save begins and commits a transaction without looking at the snapshot.
C21_SaveNeverRacesUpdate ==
    [][(SaveRunning /\ app' # app) =>
          \A k \in 1..Len(cmds) : cmds[k].running => ~cmds[k].reads]_vars

\* C21 witness: a mutating command has just changed the snapshot while the
\* Save of an earlier mutation was running; that Save is still running and a
\* second one is queued.
C21_Witness ==
    /\ call.op \in {"ToggleTask", "DeleteTask", "DeleteList"}
    /\ ~call.err
    /\ Len(cmds) = 2
    /\ cmds[1].running
    /\ ~cmds[2].running

\* C29: when the Save that follows a mutating command fails, the message the
\* user is shown has type error and the view state stays as it was.
C29_SaveFailureShownAsError ==
    [][(call'.op = "Save" /\ call'.err) =>
          /\ ui'.messageType = "error"
          /\ ui'.state = ui.state]_vars

(***************************************************************************)
(* Claims about the schema (checked under SpecSchema).                      *)
(***************************************************************************)
\* C28: on a store in which version 1 is recorded, a run of NewDatabase that
\* meets no external failure succeeds, with or without a migrations directory,
\* and leaves every version applied at most once.
C28_OpeningIsRepeatable ==
    [][(/\ 1 \in db.ledger
        /\ call'.op = "NewDatabase"
        /\ call'.fault = NoFault) =>
          /\ ~call'.err
          /\ \A v \in Versions : db'.applied[v] <= 1]_vars

(***************************************************************************)
(* Further claims about the controller (checked under Spec).               *)
(***************************************************************************)
\* C31: when CreateList adds no list and returns no ID, the controller shows
\* an error message, stays in CreateListView and keeps the form buffers.
C31_FailedCreateListReported ==
    [][(call'.op = "CreateList" /\ call'.id = NoID) =>
          /\ ui'.messageType = "error"
          /\ ui'.state = CreateListView
          /\ Buffers(ui') = Buffers(ui)]_vars

MutatingOps ==
    {"CreateList", "UpdateList", "DeleteList",
     "CreateTask", "UpdateTask", "ToggleTask", "DeleteTask"}

\* The IDs the task widget ought to show for current list listID of snapshot a.
ProjectedIDs(a, listID) ==
    IF ListIndex(a, listID) = 0 THEN <<>>
    ELSE LET items == ShownTasks(a, listID)
         IN  [j \in 1..Len(items) |-> items[j].id]

\* C32: after every mutating command and after every change of the current
\* list ID, the task widget holds the tasks of the current list of the
\* snapshot, in order, without the completed ones when ShowCompleted is off,
\* and nothing when the current list does not exist.
C32_TaskWidgetIsProjection ==
    [][((call'.op \in MutatingOps /\ ~call'.err)
        \/ ui'.currentListID # ui.currentListID) =>
          [j \in 1..Len(ui'.tasksList.items) |-> ui'.tasksList.items[j].id]
            = ProjectedIDs(app', ui'.currentListID)]_vars

EditStates == {EditListView, EditTaskView}

CreateStates == {CreateListView, CreateTaskView}

\* C33: in EditListView and EditTaskView the editing flag is set, in
\* CreateListView and CreateTaskView it is not, and on entering an edit view
\* the title and description inputs hold those of the selected item.
C33_EditingFlagMatchesView ==
    [][/\ ui'.state \in EditStates => ui'.editing
       /\ ui'.state \in CreateStates => ~ui'.editing
       /\ (ui.state # EditListView /\ ui'.state = EditListView) =>
             LET item == ui.todoListsList.items[SelectedItem(ui.todoListsList)]
             IN  /\ ui'.titleInput = item.title
                 /\ ui'.descriptionInput = item.description
       /\ (ui.state # EditTaskView /\ ui'.state = EditTaskView) =>
             LET item == ui.tasksList.items[SelectedItem(ui.tasksList)]
             IN  /\ ui'.titleInput = item.title
                 /\ ui'.descriptionInput = item.description]_vars

\* C34: the controller enters CreateTaskView or EditTaskView only from
\* TasksView with the Main window focused.
C34_TaskFormsOnlyFromTasksView ==
    [][(ui.state \notin TaskFormStates /\ ui'.state \in TaskFormStates) =>
          /\ ui.state = TasksView
          /\ FocusedPanels(layout) = {MainWindow}]_vars

\* C36: the current list ID is empty or the ID of a list of the snapshot.
C36_CurrentListExists ==
    ui.currentListID = NoID \/ ListIndex(app, ui.currentListID) # 0

\* C37: whenever the Help overlay is visible the Help window holds the focus.
C37_HelpHoldsFocus ==
    Visible(layout, HelpWindow) => FocusedPanels(layout) = {HelpWindow}

\* C38: after every event and the View that follows it, the Form overlay is
\* visible exactly when the view state is one of the four form states.
C38_FormVisibleIffFormState ==
    Visible(layout, FormWindow) <=> ui.state \in FormStates

\* C38 witness: the task form has been submitted and the overlay is hidden
\* again.
C38_Witness ==
    /\ call.op = "UpdateTask" /\ ~call.err
    /\ ui.state = TasksView
    /\ ~Visible(layout, FormWindow)

\* C40: in every state the controller reaches, exactly one window is focused
\* and that window is visible.
C40_OneVisibleFocus ==
    /\ Cardinality(FocusedPanels(layout)) = 1
    /\ \A id \in FocusedPanels(layout) : Visible(layout, id)

\* C40 witness: the Help overlay was opened over an open form whose window
\* held the focus; the Help window alone is focused.
C40_Witness ==
    /\ ui.state \in FormStates
    /\ Visible(layout, FormWindow)
    /\ Visible(layout, HelpWindow)
    /\ FocusedPanels(layout) = {HelpWindow}

\* C39: a successful submit of the edit-task form leaves the number and order
\* of the tasks of every list as they were, leaves every task other than the
\* edited one as it was, and leaves the ID, the priority and the completed
\* flag of the edited task as they were.
C39_EditTaskKeepsTheRest ==
    [][(/\ ui.state = EditTaskView
        /\ ui.editing
        /\ KeyStep(EnterKey)
        /\ call'.op = "UpdateTask"
        /\ ~call'.err) =>
          LET i == ListIndex(app, call'.list)
              j == TaskIndex(app, i, call'.task)
          IN  /\ i # 0 /\ j # 0
              /\ Len(app'.lists) = Len(app.lists)
              /\ \A k \in 1..Len(app.lists) :
                    /\ Len(app'.lists[k].tasks) = Len(app.lists[k].tasks)
                    /\ \A m \in 1..Len(app.lists[k].tasks) :
                          IF k = i /\ m = j
                          THEN /\ app'.lists[k].tasks[m].id = app.lists[k].tasks[m].id
                               /\ app'.lists[k].tasks[m].priority =
                                     app.lists[k].tasks[m].priority
                               /\ app'.lists[k].tasks[m].completed =
                                     app.lists[k].tasks[m].completed
                          ELSE app'.lists[k].tasks[m] = app.lists[k].tasks[m]]_vars

(***************************************************************************)
(* SpecTimer: the program from Init to the end of the event loop, with its  *)
(* reminder timer.  Here cmds holds the commands that have been returned    *)
(* and whose message has not been received yet: the tea.Tick commands, each *)
(* with the clock reading at which its timer fires, and the tea.Quit        *)
(* commands.  A command runs on a goroutine of its own and sends its        *)
(* message to the event loop, which goes on handling whatever arrives       *)
(* before it; call.op is "quit" once the loop has received a QuitMsg and    *)
(* ended.  The runtime delivers the message of a timer that has fired, and  *)
(* the clock advances: both are weakly fair.                                *)
(***************************************************************************)
\* Most key and resize events of one run.
MaxTimerEvents == 2

TimerKeys ==
    {RuneKey("q"), RuneKey("?"), Key("ctrl+s"), RuneKey("n"), RuneKey("a"),
     Key("esc")}

\* A reminderMsg handler that schedules nothing.
checkReminders_None(clock) == <<>>

\* checkReminders: the command tea.Tick(time.Minute, ...), run at clock
\* reading clock.
checkReminders(clock) == <<[op |-> "tick", due |-> clock + Minute]>>

\* Model.Init: the batch of textinput.Blink, which no case of Update handles,
\* and checkReminders().
ModelInit(clock) == checkReminders(clock)

\* The pending reminder ticks.
PendingTicks == SelectSeq(cmds, LAMBDA c : c.op = "tick")

\* The event loop has received a QuitMsg and ended.
Quitted == call.op = "quit"

\* list.Model.Update returns tea.Quit for the keys of its default Quit
\* binding; the controller leaves the binding enabled.
ListWidgetQuits(msg) == msg.name \in {"q", "esc"}

\* updateListsView hands to the list widget a key that matches none of its
\* own bindings.
ReachesListWidget(msg) ==
    \A binding \in {keys.NewList, keys.Settings, keys.Enter, keys.Edit, keys.Delete} :
      ~Matches(msg, binding)

\* Whether Update, for a KeyMsg routed to route, returns tea.Quit: from the
\* global Quit binding, or from the Sidebar's list widget.
ReturnsQuit(msg, route) ==
    \/ route = "quit"
    \/ /\ route = "lists"
       /\ ReachesListWidget(msg)
       /\ ListWidgetQuits(msg)

\* The commands pending after Update handled msg.
AfterKey(msg, route) ==
    IF ReturnsQuit(msg, route) THEN Append(cmds, [op |-> "quit", due |-> now])
    ELSE cmds

InitTimer ==
    /\ backend = "db"
    /\ jsonFile = NoFile
    /\ call = NoCall
    /\ chain = NoChain
    /\ formerTasks = {}
    /\ events = 0
    /\ \/ app = EmptyApp /\ db = EmptyDb /\ now = 0
       \/ app = SeedStore.app /\ db = SeedStore.db /\ now = 1
    /\ cmds = ModelInit(now)
    /\ LET s == View(NewModel(app, db, now))
       IN  /\ layout = s.layout
           /\ ui = [f \in DOMAIN ZeroModel |-> s[f]]

\* The clock advances by a tick.
TmClock ==
    /\ now < MaxTicks
    /\ now' = now + 1
    /\ UNCHANGED <<backend, app, db, jsonFile, call, chain, formerTasks, uiVars>>

\* One KeyMsg through Update and View; a tea.Quit that Update returns is run.
TmKey ==
    \E msg \in TimerKeys, cur \in FocusedWindows(layout) :
      /\ ~Quitted
      /\ events < MaxTimerEvents
      /\ Admitted(Bundle, msg, Route(Bundle, msg, cur))
      /\ \E fault \in FaultsOf(msg) :
           CommitCmds(View(UpdateKey(Bundle, msg, now, fault, cur)),
                      AfterKey(msg, Route(Bundle, msg, cur)))

\* One WindowSizeMsg through Update and View.
TmWindowSize ==
    \E size \in ControllerSizes :
      /\ ~Quitted
      /\ events < MaxTimerEvents
      /\ Commit(View(UpdateWindowSize(Bundle, size[1], size[2])))

\* The timer of a pending tick has fired and its reminderMsg goes through
\* Update and View; the command Update returns is run.
TmReminderMsg ==
    \E k \in 1..Len(cmds) :
      /\ ~Quitted
      /\ cmds[k].op = "tick"
      /\ cmds[k].due <= now
      /\ LET s == View(UpdateReminder(Bundle, now))
         IN  /\ ui' = [f \in DOMAIN ui |-> s[f]]
             /\ layout' = s.layout
             /\ call' = s.call
      /\ cmds' = RemoveAt(cmds, k) \o checkReminders(now)
      /\ UNCHANGED <<gwVars, now, chain, formerTasks, events>>

\* The event loop receives the QuitMsg of a tea.Quit command and ends.
TmQuitMsg ==
    \E k \in 1..Len(cmds) :
      /\ ~Quitted
      /\ cmds[k].op = "quit"
      /\ cmds' = RemoveAt(cmds, k)
      /\ call' = [NoCall EXCEPT !.op = "quit"]
      /\ UNCHANGED <<gwVars, now, chain, formerTasks, layout, ui, events>>

NextTimer ==
    \/ TmClock
    \/ TmKey
    \/ TmWindowSize
    \/ TmReminderMsg
    \/ TmQuitMsg

SpecTimer ==
    /\ InitTimer
    /\ [][NextTimer]_vars
    /\ WF_vars(TmClock)
    /\ WF_vars(TmReminderMsg)

\* C35: until the event loop ends with Quit exactly one reminder tick is
\* pending; the delivery of a reminderMsg runs the scan (the throttle does not
\* skip it) and leaves exactly one tick pending; and a pending tick whose
\* timer fires by the last clock reading leads to a scan at or after that
\* reading, or to Quit, whatever key and resize events come in between.
C35_OneTickAlwaysPending ==
    /\ [](~Quitted => Len(PendingTicks) = 1)
    /\ [][TmReminderMsg =>
            /\ call'.op = "reminderMsg"
            /\ call'.ran
            /\ Len(PendingTicks') = 1]_vars
    /\ \A d \in 1..MaxTicks :
         (~Quitted /\ Len(PendingTicks) = 1 /\ PendingTicks[1].due = d)
           ~> (\/ Quitted
               \/ /\ call.op = "reminderMsg"
                  /\ call.ran
                  /\ ui.lastReminderCheck >= d)

\* C35 witness: key or resize events came in and a tea.Quit is still on its
\* way; meanwhile a second scan has run a minute or more after the first, and
\* its next tick is pending.
C35_Witness ==
    /\ events > 0
    /\ \E k \in 1..Len(cmds) : cmds[k].op = "quit"
    /\ call.op = "reminderMsg"
    /\ call.ran
    /\ ui.lastReminderCheck >= 2 * Minute
    /\ Len(PendingTicks) = 1
    /\ PendingTicks[1].due = ui.lastReminderCheck + Minute

=============================================================================
